---- MODULE Spec2Model ----
(***************************************************************************)
(* The hotel-booking backend as a state machine.  The relational store is  *)
(* the only shared state (users, HotelDetails, CorporateDetails,           *)
(* room_types, HotelPosts, bookings); tokens holds, per account, the       *)
(* identityType claim of the token issued to it last.  Every HTTP request  *)
(* is a process                                                            *)
(* whose position (pc) advances by one storage statement per step: each    *)
(* `await executeQuery(...)` of a handler is one atomic step together with *)
(* the synchronous code that follows it, so that requests interleave       *)
(* exactly where the handlers suspend.                                     *)
(***************************************************************************)
EXTENDS Integers, Sequences, FiniteSets, TLC

VARIABLES tokens, users, hotelDetails, corporateDetails, room_types, hotelPosts,
          bookings, chat, reqs, now

vars == <<tokens, users, hotelDetails, corporateDetails, room_types, hotelPosts,
          bookings, chat, reqs, now>>

store == <<tokens, users, hotelDetails, corporateDetails, room_types, hotelPosts,
           bookings, chat, now>>

(* ------------------------------ bounds -------------------------------- *)

\* requests issued in one behaviour
MaxReq == 2

\* rows of the bookings table (the seeded row included)
MaxBookings == 2

\* size of the space generateBookingNumber draws from
NumBookingNumbers == 2

(* ------------------------- values and helpers ------------------------- *)

\* SQL NULL / JS undefined-or-null, and a present value
Null == <<>>

Some(v) == <<v>>

Val(o) == o[1]

\* JS truthiness of an optional number (undefined, null and 0 are falsy)
TruthyNum(o) == o # Null /\ Val(o) # 0

\* JS truthiness of an optional string (undefined, null and "" are falsy)
TruthyStr(o) == o # Null /\ Val(o) # ""

\* Math.ceil(a / b) for b > 0
Ceil(a, b) == -((-a) \div b)

\* one day in the model's time unit (check-in/out instants are in half days)
DayUnits == 2

UserIds == 1 .. 3

RoomTypeIds == 1 .. 2

PostIds == 1 .. 2

BookingIds == 1 .. MaxBookings

BookingNumbers == 1 .. NumBookingNumbers

BookingStatusEnum ==
    {"pending", "confirmed", "rejected", "cancelled", "completed", "no_show"}

(* ------------------------------- Init --------------------------------- *)

\* bcrypt.hash(password, 12) and bcrypt.compare(password, hash): a hash
\* matches the password it was made from and no other; compare throws on a
\* hash that is not a string (see LoginCompare)
Hash(password) == <<"bcrypt", password>>

Compare(password, hash) == hash = Hash(password)

\* the password the accounts present at start were registered with
SeedPassword == "pw1"

\* a users row created by POST /auth/register, after the account's
\* set-identity and profile calls if any
Account(email, identityType, isProfileCompleted) ==
    [ email              |-> email,
      password           |-> Some(Hash(SeedPassword)),
      role               |-> "user",
      identityType       |-> identityType,
      isProfileCompleted |-> isProfileCompleted ]

\* statuses of the row present at start: pending, and the two statuses of
\* the stored vocabulary that no route writes
SeedStatuses == {"pending", "completed", "no_show"}

\* a bookings row that exists before any request of the behaviour: the
\* stored vocabulary includes statuses no route writes (completed, no_show)
SeedBooking(s) ==
    [ BookingNumber       |-> 1,
      UserId              |-> 3,
      CorporateDetails_Id |-> Some(1),
      HotelDetails_Id     |-> 1,
      RoomTypes_Id        |-> 1,
      CheckIn             |-> 0,
      CheckOut            |-> 4,
      RoomQuantity        |-> 1,
      TotalPrice          |-> 240,
      BookingStatus       |-> s,
      ApprovedAt          |-> IF s \in {"confirmed", "completed", "no_show"}
                              THEN Some(0) ELSE Null,
      RejectionReason     |-> IF s = "rejected" THEN Some("full") ELSE Null ]

\* a message the corporate client 1 sent to hotel 1 about no post, before
\* the first request
SeedMessage ==
    [ CorporateDetails_Id |-> 1, HotelDetails_Id |-> 1, HotelPosts_Id |-> Null,
      Message |-> "hello", SenderType |-> "Corporate", CreatedAt |-> 0 ]

Init ==
    /\ users = << Account("h1", Some("Hotel"), TRUE),
                  Account("h2", Some("Hotel"), TRUE),
                  Account("c", Some("Corporate"), TRUE),
                  Account("n", Null, FALSE) >>
    /\ tokens = [u \in DOMAIN users |-> Some(users[u].identityType)]
    /\ hotelDetails = << [userId |-> 1], [userId |-> 2] >>
    /\ corporateDetails = << [userId |-> 3] >>
    /\ room_types =
         [id \in RoomTypeIds |->
            IF id = 1
            THEN Some([HotelDetails_Id |-> 1, Name |-> "double",
                       Description |-> Some("sea view"), Capacity |-> 2,
                       BasePrice |-> 150, CorporatePrice |-> Some(120),
                       Amenities |-> Some(<<"json", {"wifi"}>>),
                       IsActive |-> TRUE])
            ELSE Some([HotelDetails_Id |-> 2, Name |-> "single",
                       Description |-> Some(""), Capacity |-> 1,
                       BasePrice |-> 100, CorporatePrice |-> Null,
                       Amenities |-> Null, IsActive |-> TRUE])]
    /\ hotelPosts =
         [id \in PostIds |-> Some([HotelDetails_Id |-> id, Title |-> "offer",
                                   Price |-> Null])]
    /\ \E s \in SeedStatuses : bookings = << SeedBooking(s) >>
    /\ chat = << SeedMessage >>
    /\ reqs = << >>
    /\ now = 1

(* ------------------------------ requests ------------------------------ *)

\* a request as it enters its handler: the claims of the caller's most
\* recently issued token as authMiddleware verifies them (user, ident),
\* the route parameter (id), the JSON body, and the handler's locals
NewReq(kind, user, id, body) ==
    [ kind    |-> kind,
      user    |-> user,
      ident   |-> Val(tokens[user]),
      id      |-> id,
      body    |-> body,
      pc      |-> "start",
      hotelId |-> Null,
      corpId  |-> Null,
      row     |-> Null,
      failed  |-> FALSE,
      resp    |-> 0,
      out     |-> Null ]

\* res.status(code).json(...): the handler returns
Respond(i, code) ==
    reqs' = [reqs EXCEPT ![i].pc = "done", ![i].resp = code]

At(i, kind, pc) ==
    /\ i \in DOMAIN reqs
    /\ reqs[i].kind = kind
    /\ reqs[i].pc = pc

InFlight(kind) ==
    Cardinality({i \in DOMAIN reqs : reqs[i].kind = kind /\ reqs[i].pc # "done"})

(* ------------------------------ helpers ------------------------------- *)

\* SELECT Id FROM HotelDetails WHERE userId = ?   (rows[0].Id or null)
getHotelDetailsId(userId) ==
    LET rows == {h \in DOMAIN hotelDetails : hotelDetails[h].userId = userId}
    IN  IF rows = {} THEN Null
        ELSE Some(CHOOSE h \in rows : \A g \in rows : h <= g)

\* SELECT Id FROM CorporateDetails WHERE userId = ?   (rows[0].Id or null)
getCorporateDetailsId(userId) ==
    LET rows == {c \in DOMAIN corporateDetails :
                   corporateDetails[c].userId = userId}
    IN  IF rows = {} THEN Null
        ELSE Some(CHOOSE c \in rows : \A d \in rows : c <= d)

calculateTotalPrice(pricePerNight, nights) == pricePerNight * nights

(* ------------------------- POST /bookings ----------------------------- *)

\* SELECT ... FROM room_types WHERE Id = ? AND HotelDetails_Id = ?
\*                              AND IsActive = TRUE
SelectActiveRoomType(roomTypeId, hotelDetailsId) ==
    IF /\ roomTypeId \in RoomTypeIds
       /\ room_types[roomTypeId] # Null
       /\ Val(room_types[roomTypeId]).HotelDetails_Id = hotelDetailsId
       /\ Val(room_types[roomTypeId]).IsActive
    THEN Some([BasePrice      |-> Val(room_types[roomTypeId]).BasePrice,
               CorporatePrice |-> Val(room_types[roomTypeId]).CorporatePrice])
    ELSE Null

\* roomTypeInfo[0].CorporatePrice || roomTypeInfo[0].BasePrice
pricePerNight(info) ==
    IF TruthyNum(info.CorporatePrice) THEN Val(info.CorporatePrice)
    ELSE info.BasePrice

\* Math.ceil((checkOut.getTime() - checkIn.getTime()) / (1000*60*60*24))
nights(checkIn, checkOut) == Ceil(checkOut - checkIn, DayUnits)

\* roomCount || 1
numberOfRooms(roomCount) ==
    IF TruthyNum(roomCount) THEN Val(roomCount) ELSE 1

\* calculateTotalPrice(pricePerNight, nights) * numberOfRooms
totalPrice(info, body) ==
    calculateTotalPrice(pricePerNight(info), nights(body.checkIn, body.checkOut))
        * numberOfRooms(body.roomCount)

\* the identity gate, the required-field check and the room-type SELECT
CreateSelectRoomType(i) ==
    /\ At(i, "create", "start")
    /\ LET r    == reqs[i]
           info == SelectActiveRoomType(r.body.roomTypeId, r.body.hotelDetailsId)
       IN  IF r.ident # Some("Corporate") THEN Respond(i, 403)
           ELSE IF ~r.body.complete THEN Respond(i, 400)
           ELSE IF info = Null THEN Respond(i, 404)
           ELSE reqs' = [reqs EXCEPT ![i].pc = "corp", ![i].row = info]
    /\ UNCHANGED store

\* const corporateId = await getCorporateDetailsId(req.user!.id)
CreateGetCorporate(i) ==
    /\ At(i, "create", "corp")
    /\ reqs' = [reqs EXCEPT ![i].pc = "insert",
                            ![i].corpId = getCorporateDetailsId(reqs[i].user)]
    /\ UNCHANGED store

\* the row the INSERT writes; BookingStatus is the literal 'pending'
NewBooking(r, bookingNumber) ==
    [ BookingNumber       |-> bookingNumber,
      UserId              |-> r.user,
      CorporateDetails_Id |-> r.corpId,
      HotelDetails_Id     |-> r.body.hotelDetailsId,
      RoomTypes_Id        |-> r.body.roomTypeId,
      CheckIn             |-> r.body.checkIn,
      CheckOut            |-> r.body.checkOut,
      RoomQuantity        |-> numberOfRooms(r.body.roomCount),
      TotalPrice          |-> totalPrice(Val(r.row), r.body),
      BookingStatus       |-> "pending",
      ApprovedAt          |-> Null,
      RejectionReason     |-> Null ]

\* faulty variant of the storage layer: bookings.BookingNumber is not UNIQUE
InsertAcceptedNoUnique(row) ==
    /\ row.HotelDetails_Id \in DOMAIN hotelDetails
    /\ row.RoomTypes_Id \in RoomTypeIds
    /\ room_types[row.RoomTypes_Id] # Null

\* what the storage layer enforces on the INSERT: BookingNumber UNIQUE,
\* fk_bk_hotel and fk_bk_roomtype (the parent rows must exist)
InsertAccepted(row) ==
    /\ \A k \in DOMAIN bookings : bookings[k].BookingNumber # row.BookingNumber
    /\ row.HotelDetails_Id \in DOMAIN hotelDetails
    /\ row.RoomTypes_Id \in RoomTypeIds
    /\ room_types[row.RoomTypes_Id] # Null

\* price computation, generateBookingNumber() and the INSERT; a rejected
\* INSERT throws into the handler's catch (500)
CreateInsert(i) ==
    /\ At(i, "create", "insert")
    /\ \E bookingNumber \in BookingNumbers :
         LET r   == reqs[i]
             row == NewBooking(r, bookingNumber)
         IN  IF InsertAccepted(row)
             THEN /\ bookings' = Append(bookings, row)
                  /\ reqs' = [reqs EXCEPT
                        ![i].pc = "done", ![i].resp = 201,
                        ![i].out = Some([id            |-> Len(bookings) + 1,
                                         bookingNumber |-> bookingNumber,
                                         totalPrice    |-> row.TotalPrice,
                                         nights        |-> nights(r.body.checkIn,
                                                                  r.body.checkOut)])]
             ELSE /\ Respond(i, 500)
                  /\ UNCHANGED bookings
    /\ UNCHANGED <<chat, tokens, users, hotelDetails, corporateDetails, room_types,
                   hotelPosts, now>>

(* ------------------- PUT /bookings/:id/approve ------------------------ *)

\* SELECT Id, BookingStatus FROM bookings WHERE Id = ? AND HotelDetails_Id = ?
SelectHotelBooking(id, hotelId) ==
    IF /\ id \in DOMAIN bookings
       /\ hotelId # Null
       /\ bookings[id].HotelDetails_Id = Val(hotelId)
    THEN Some(bookings[id].BookingStatus)
    ELSE Null

\* faulty variant of the status check: a confirmed booking also passes
IsPendingOrConfirmed(status) == status \in {"pending", "confirmed"}

\* booking[0].BookingStatus !== 'pending' rejects the call
IsPending(status) == status = "pending"

\* the identity gate and getHotelDetailsId(req.user!.id)
ApproveGetHotel(i) ==
    /\ At(i, "approve", "start")
    /\ IF reqs[i].ident # Some("Hotel") THEN Respond(i, 403)
       ELSE reqs' = [reqs EXCEPT ![i].pc = "select",
                                 ![i].hotelId = getHotelDetailsId(reqs[i].user)]
    /\ UNCHANGED store

\* the ownership SELECT and the status check
ApproveSelect(i) ==
    /\ At(i, "approve", "select")
    /\ LET booking == SelectHotelBooking(reqs[i].id, reqs[i].hotelId)
       IN  IF booking = Null THEN Respond(i, 404)
           ELSE IF ~IsPending(Val(booking))
                THEN reqs' = [reqs EXCEPT ![i].pc = "done", ![i].resp = 400,
                                          ![i].row = booking]
                ELSE reqs' = [reqs EXCEPT ![i].pc = "update", ![i].row = booking]
    /\ UNCHANGED store

\* faulty variant of the approve UPDATE: the approval timestamp is not set
ApproveUpdateNoTimestamp(i) ==
    /\ At(i, "approve", "update")
    /\ bookings' = [bookings EXCEPT ![reqs[i].id].BookingStatus = "confirmed"]
    /\ now' = now + 1
    /\ Respond(i, 200)
    /\ UNCHANGED <<chat, tokens, users, hotelDetails, corporateDetails, room_types, hotelPosts>>

\* UPDATE bookings SET BookingStatus = 'confirmed', ApprovedAt = NOW()
\*  WHERE Id = ?
ApproveUpdate(i) ==
    /\ At(i, "approve", "update")
    /\ bookings' = [bookings EXCEPT ![reqs[i].id].BookingStatus = "confirmed",
                                    ![reqs[i].id].ApprovedAt = Some(now)]
    /\ now' = now + 1
    /\ Respond(i, 200)
    /\ UNCHANGED <<chat, tokens, users, hotelDetails, corporateDetails, room_types, hotelPosts>>

(* -------------------- PUT /bookings/:id/reject ------------------------ *)

\* faulty variant of the stored reason: reason ?? null keeps an empty string
StoredReasonNullish(reason) == reason

\* reason || null
StoredReason(reason) == IF TruthyStr(reason) THEN reason ELSE Null

RejectGetHotel(i) ==
    /\ At(i, "reject", "start")
    /\ IF reqs[i].ident # Some("Hotel") THEN Respond(i, 403)
       ELSE reqs' = [reqs EXCEPT ![i].pc = "select",
                                 ![i].hotelId = getHotelDetailsId(reqs[i].user)]
    /\ UNCHANGED store

RejectSelect(i) ==
    /\ At(i, "reject", "select")
    /\ LET booking == SelectHotelBooking(reqs[i].id, reqs[i].hotelId)
       IN  IF booking = Null THEN Respond(i, 404)
           ELSE IF ~IsPending(Val(booking))
                THEN reqs' = [reqs EXCEPT ![i].pc = "done", ![i].resp = 400,
                                          ![i].row = booking]
                ELSE reqs' = [reqs EXCEPT ![i].pc = "update", ![i].row = booking]
    /\ UNCHANGED store

\* UPDATE bookings SET BookingStatus = 'rejected', RejectionReason = ?
\*  WHERE Id = ?
RejectUpdate(i) ==
    /\ At(i, "reject", "update")
    /\ bookings' = [bookings EXCEPT
                      ![reqs[i].id].BookingStatus = "rejected",
                      ![reqs[i].id].RejectionReason =
                          StoredReason(reqs[i].body.reason)]
    /\ Respond(i, 200)
    /\ UNCHANGED <<chat, tokens, users, hotelDetails, corporateDetails, room_types,
                   hotelPosts, now>>

(* -------------------- PUT /bookings/:id/cancel ------------------------ *)

\* SELECT Id, BookingStatus FROM bookings WHERE Id = ? AND UserId = ?
SelectUserBooking(id, userId) ==
    IF id \in DOMAIN bookings /\ bookings[id].UserId = userId
    THEN Some(bookings[id].BookingStatus)
    ELSE Null

\* faulty variant of the cancel check: only a cancelled booking is refused
IsCancellableUnlessCancelled(status) == status # "cancelled"

\* ['pending', 'confirmed'].includes(booking[0].BookingStatus)
IsCancellable(status) == status \in {"pending", "confirmed"}

\* the route has no identity gate: only the requester filter of the SELECT
CancelSelect(i) ==
    /\ At(i, "cancel", "start")
    /\ LET booking == SelectUserBooking(reqs[i].id, reqs[i].user)
       IN  IF booking = Null THEN Respond(i, 404)
           ELSE IF ~IsCancellable(Val(booking))
                THEN reqs' = [reqs EXCEPT ![i].pc = "done", ![i].resp = 400,
                                          ![i].row = booking]
                ELSE reqs' = [reqs EXCEPT ![i].pc = "update", ![i].row = booking]
    /\ UNCHANGED store

\* UPDATE bookings SET BookingStatus = 'cancelled' WHERE Id = ?
CancelUpdate(i) ==
    /\ At(i, "cancel", "update")
    /\ bookings' = [bookings EXCEPT ![reqs[i].id].BookingStatus = "cancelled"]
    /\ Respond(i, 200)
    /\ UNCHANGED <<chat, tokens, users, hotelDetails, corporateDetails, room_types,
                   hotelPosts, now>>

(* ----------------------- PUT /room-types/:id -------------------------- *)

\* a price as it arrives in a JSON body: a number or a numeric string
JsNum(n) == Some([str |-> FALSE, num |-> n])

JsStr(n) == Some([str |-> TRUE, num |-> n])

\* JS truthiness of a body value: undefined and the number 0 are falsy,
\* every non-empty string (also "0") is truthy
Truthy(js) == js # Null /\ (Val(js).str \/ Val(js).num # 0)

\* x ? parseFloat(x) : null
FloatParam(js) == IF Truthy(js) THEN Some(Val(js).num) ELSE Null

\* x || null for a string of the body
StrParam(o) == IF TruthyStr(o) THEN o ELSE Null

\* capacity ? parseInt(capacity) : null
IntParam(js) == IF Truthy(js) THEN Some(Val(js).num) ELSE Null

\* JSON.stringify of a list of amenities
Stringify(list) == <<"json", list>>

\* amenities ? JSON.stringify(amenities) : null   (every array is truthy)
JsonParam(o) == IF o # Null THEN Some(Stringify(Val(o))) ELSE Null

\* isActive !== undefined ? isActive : null
ActiveParam(isActive) == isActive

\* COALESCE(?, column) on a NOT NULL column
Coalesce(param, column) == IF param # Null THEN Val(param) ELSE column

\* faulty variant: the parameter is written as it is, NULL included
SetNullable(param, column) == param

\* COALESCE(?, column) on a nullable column
CoalesceNullable(param, column) == IF param # Null THEN param ELSE column

\* faulty variant of the ownership SELECT: the hotel filter is missing
OwnsRoomTypeAnyHotel(id, hotelId) ==
    /\ id \in RoomTypeIds
    /\ room_types[id] # Null
    /\ hotelId # Null

\* SELECT Id FROM room_types WHERE Id = ? AND HotelDetails_Id = ?
OwnsRoomType(id, hotelId) ==
    /\ id \in RoomTypeIds
    /\ room_types[id] # Null
    /\ hotelId # Null
    /\ Val(room_types[id]).HotelDetails_Id = Val(hotelId)

\* hotelOnlyMiddleware, getHotelDetailsId and the !hotelId check
RoomTypeUpdateGetHotel(i) ==
    /\ At(i, "rtUpdate", "start")
    /\ IF reqs[i].ident # Some("Hotel") THEN Respond(i, 403)
       ELSE IF getHotelDetailsId(reqs[i].user) = Null THEN Respond(i, 404)
       ELSE reqs' = [reqs EXCEPT ![i].pc = "select",
                                 ![i].hotelId = getHotelDetailsId(reqs[i].user)]
    /\ UNCHANGED store

\* the ownership SELECT
RoomTypeUpdateSelect(i) ==
    /\ At(i, "rtUpdate", "select")
    /\ IF ~OwnsRoomType(reqs[i].id, reqs[i].hotelId) THEN Respond(i, 404)
       ELSE reqs' = [reqs EXCEPT ![i].pc = "update"]
    /\ UNCHANGED store

\* UPDATE room_types SET col = COALESCE(?, col), ... WHERE Id = ?
UpdatedRoomType(row, body) ==
    [ HotelDetails_Id |-> row.HotelDetails_Id,
      Name            |-> Coalesce(StrParam(body.name), row.Name),
      Description     |-> CoalesceNullable(StrParam(body.description),
                                           row.Description),
      Capacity        |-> Coalesce(IntParam(body.capacity), row.Capacity),
      BasePrice       |-> Coalesce(FloatParam(body.basePrice), row.BasePrice),
      CorporatePrice  |-> CoalesceNullable(FloatParam(body.corporatePrice),
                                           row.CorporatePrice),
      Amenities       |-> CoalesceNullable(JsonParam(body.amenities),
                                           row.Amenities),
      IsActive        |-> Coalesce(ActiveParam(body.isActive), row.IsActive) ]

\* faulty variant of the room-type UPDATE: the bookings of the room type are
\* re-priced from the updated row
RoomTypeUpdateWriteRepricing(i) ==
    /\ At(i, "rtUpdate", "update")
    /\ room_types' =
         IF room_types[reqs[i].id] = Null THEN room_types
         ELSE [room_types EXCEPT ![reqs[i].id] =
                 Some(UpdatedRoomType(Val(room_types[reqs[i].id]), reqs[i].body))]
    /\ bookings' =
         [k \in DOMAIN bookings |->
            IF bookings[k].RoomTypes_Id = reqs[i].id /\ room_types'[reqs[i].id] # Null
            THEN [bookings[k] EXCEPT !.TotalPrice =
                    pricePerNight(Val(room_types'[reqs[i].id]))
                      * nights(bookings[k].CheckIn, bookings[k].CheckOut)
                      * bookings[k].RoomQuantity]
            ELSE bookings[k]]
    /\ Respond(i, 200)
    /\ UNCHANGED <<chat, tokens, users, hotelDetails, corporateDetails, hotelPosts, now>>

RoomTypeUpdateWrite(i) ==
    /\ At(i, "rtUpdate", "update")
    /\ room_types' =
         IF room_types[reqs[i].id] = Null THEN room_types
         ELSE [room_types EXCEPT ![reqs[i].id] =
                 Some(UpdatedRoomType(Val(room_types[reqs[i].id]), reqs[i].body))]
    /\ Respond(i, 200)
    /\ UNCHANGED <<chat, tokens, users, hotelDetails, corporateDetails, hotelPosts,
                   bookings, now>>

(* ---------------------- DELETE /room-types/:id ------------------------- *)

RoomTypeDeleteGetHotel(i) ==
    /\ At(i, "rtDelete", "start")
    /\ IF reqs[i].ident # Some("Hotel") THEN Respond(i, 403)
       ELSE IF getHotelDetailsId(reqs[i].user) = Null THEN Respond(i, 404)
       ELSE reqs' = [reqs EXCEPT ![i].pc = "delete",
                                 ![i].hotelId = getHotelDetailsId(reqs[i].user)]
    /\ UNCHANGED store

\* fk_bk_roomtype ... ON DELETE RESTRICT: a referenced row cannot be deleted
RoomTypeReferenced(id) ==
    \E k \in DOMAIN bookings : bookings[k].RoomTypes_Id = id

\* DELETE FROM room_types WHERE Id = ? AND HotelDetails_Id = ?, then the
\* affectedRows check; a restricted delete throws into the catch (500)
RoomTypeDeleteExec(i) ==
    /\ At(i, "rtDelete", "delete")
    /\ IF ~OwnsRoomType(reqs[i].id, reqs[i].hotelId)
       THEN Respond(i, 404) /\ UNCHANGED room_types
       ELSE IF RoomTypeReferenced(reqs[i].id)
       THEN Respond(i, 500) /\ UNCHANGED room_types
       ELSE /\ room_types' = [room_types EXCEPT ![reqs[i].id] = Null]
            /\ Respond(i, 200)
    /\ UNCHANGED <<chat, tokens, users, hotelDetails, corporateDetails, hotelPosts,
                   bookings, now>>

(* -------------------------- PUT /posts/:id ----------------------------- *)

\* SELECT Id FROM HotelPosts WHERE Id = ? AND HotelDetails_Id = ?
OwnsPost(id, hotelId) ==
    /\ id \in PostIds
    /\ hotelPosts[id] # Null
    /\ hotelId # Null
    /\ Val(hotelPosts[id]).HotelDetails_Id = Val(hotelId)

\* faulty variant: the route is mounted without hotelOnlyMiddleware
PostUpdateGetHotelUngated(i) ==
    /\ At(i, "postUpdate", "start")
    /\ IF getHotelDetailsId(reqs[i].user) = Null THEN Respond(i, 404)
       ELSE reqs' = [reqs EXCEPT ![i].pc = "select",
                                 ![i].hotelId = getHotelDetailsId(reqs[i].user)]
    /\ UNCHANGED store

\* hotelOnlyMiddleware and SELECT Id FROM HotelDetails WHERE userId = ?
PostUpdateGetHotel(i) ==
    /\ At(i, "postUpdate", "start")
    /\ IF reqs[i].ident # Some("Hotel") THEN Respond(i, 403)
       ELSE IF getHotelDetailsId(reqs[i].user) = Null THEN Respond(i, 404)
       ELSE reqs' = [reqs EXCEPT ![i].pc = "select",
                                 ![i].hotelId = getHotelDetailsId(reqs[i].user)]
    /\ UNCHANGED store

PostUpdateSelect(i) ==
    /\ At(i, "postUpdate", "select")
    /\ IF ~OwnsPost(reqs[i].id, reqs[i].hotelId) THEN Respond(i, 404)
       ELSE reqs' = [reqs EXCEPT ![i].pc = "update"]
    /\ UNCHANGED store

\* UPDATE HotelPosts SET Title = ?, ..., Price = ?, ... WHERE Id = ?
UpdatedPost(row, body) ==
    [ HotelDetails_Id |-> row.HotelDetails_Id,
      Title           |-> body.title,
      Price           |-> FloatParam(body.price) ]

PostUpdateWrite(i) ==
    /\ At(i, "postUpdate", "update")
    /\ hotelPosts' =
         IF hotelPosts[reqs[i].id] = Null THEN hotelPosts
         ELSE [hotelPosts EXCEPT ![reqs[i].id] =
                 Some(UpdatedPost(Val(hotelPosts[reqs[i].id]), reqs[i].body))]
    /\ Respond(i, 200)
    /\ UNCHANGED <<chat, tokens, users, hotelDetails, corporateDetails, room_types,
                   bookings, now>>

(* ------------------------- DELETE /posts/:id --------------------------- *)

PostDeleteGetHotel(i) ==
    /\ At(i, "postDelete", "start")
    /\ IF reqs[i].ident # Some("Hotel") THEN Respond(i, 403)
       ELSE IF getHotelDetailsId(reqs[i].user) = Null THEN Respond(i, 404)
       ELSE reqs' = [reqs EXCEPT ![i].pc = "delete",
                                 ![i].hotelId = getHotelDetailsId(reqs[i].user)]
    /\ UNCHANGED store

\* DELETE FROM HotelPosts WHERE Id = ? AND HotelDetails_Id = ?, then the
\* affectedRows check
PostDeleteExec(i) ==
    /\ At(i, "postDelete", "delete")
    /\ IF ~OwnsPost(reqs[i].id, reqs[i].hotelId)
       THEN Respond(i, 404) /\ UNCHANGED hotelPosts
       ELSE /\ hotelPosts' = [hotelPosts EXCEPT ![reqs[i].id] = Null]
            /\ Respond(i, 200)
    /\ UNCHANGED <<chat, tokens, users, hotelDetails, corporateDetails, room_types,
                   bookings, now>>

(* ------------------------- POST /set-identity -------------------------- *)

\* generateToken({..., identityType}): the token handed to the account u
\* replaces the one it held
IssueToken(u, identityType) ==
    tokens' = [tokens EXCEPT ![u] = Some(identityType)]

\* the body check, UPDATE users SET identityType = ? WHERE id = ?, and the
\* new token; the handler reads neither the stored nor the token's
\* identityType
SetIdentity(i) ==
    /\ At(i, "setIdentity", "start")
    /\ IF reqs[i].body.identityType \notin {Some("Hotel"), Some("Corporate")}
       THEN Respond(i, 400) /\ UNCHANGED <<users, tokens>>
       ELSE /\ users' = [users EXCEPT ![reqs[i].user].identityType =
                                         reqs[i].body.identityType]
            /\ IssueToken(reqs[i].user, reqs[i].body.identityType)
            /\ Respond(i, 200)
    /\ UNCHANGED <<chat, hotelDetails, corporateDetails, room_types, hotelPosts,
                   bookings, now>>

(* ------------------------- POST /profiles/hotel ------------------------ *)

\* the required-field check and SELECT Id FROM HotelDetails WHERE userId = ?
HotelProfileSelect(i) ==
    /\ At(i, "hotelProfile", "start")
    /\ IF ~reqs[i].body.complete THEN Respond(i, 400)
       ELSE reqs' = [reqs EXCEPT ![i].pc = "write",
                                 ![i].row = getHotelDetailsId(reqs[i].user)]
    /\ UNCHANGED store

\* existingProfile.length > 0: UPDATE HotelDetails ... WHERE userId = ?
\* (no modelled column changes), otherwise INSERT INTO HotelDetails
HotelProfileWrite(i) ==
    /\ At(i, "hotelProfile", "write")
    /\ hotelDetails' = IF reqs[i].row # Null THEN hotelDetails
                       ELSE Append(hotelDetails, [userId |-> reqs[i].user])
    /\ reqs' = [reqs EXCEPT ![i].pc = "complete"]
    /\ UNCHANGED <<chat, tokens, users, corporateDetails, room_types, hotelPosts,
                   bookings, now>>

\* UPDATE users SET isProfileCompleted = TRUE, then the token with the
\* literal identityType 'Hotel'
HotelProfileComplete(i) ==
    /\ At(i, "hotelProfile", "complete")
    /\ users' = [users EXCEPT ![reqs[i].user].isProfileCompleted = TRUE]
    /\ IssueToken(reqs[i].user, Some("Hotel"))
    /\ Respond(i, 201)
    /\ UNCHANGED <<chat, hotelDetails, corporateDetails, room_types, hotelPosts,
                   bookings, now>>

(* ----------------------- POST /profiles/corporate ---------------------- *)

CorporateProfileSelect(i) ==
    /\ At(i, "corporateProfile", "start")
    /\ IF ~reqs[i].body.complete THEN Respond(i, 400)
       ELSE reqs' = [reqs EXCEPT ![i].pc = "write",
                                 ![i].row = getCorporateDetailsId(reqs[i].user)]
    /\ UNCHANGED store

CorporateProfileWrite(i) ==
    /\ At(i, "corporateProfile", "write")
    /\ corporateDetails' = IF reqs[i].row # Null THEN corporateDetails
                           ELSE Append(corporateDetails,
                                       [userId |-> reqs[i].user])
    /\ reqs' = [reqs EXCEPT ![i].pc = "complete"]
    /\ UNCHANGED <<chat, tokens, users, hotelDetails, room_types, hotelPosts,
                   bookings, now>>

\* UPDATE users SET isProfileCompleted = TRUE, then the token with the
\* literal identityType 'Corporate'
CorporateProfileComplete(i) ==
    /\ At(i, "corporateProfile", "complete")
    /\ users' = [users EXCEPT ![reqs[i].user].isProfileCompleted = TRUE]
    /\ IssueToken(reqs[i].user, Some("Corporate"))
    /\ Respond(i, 201)
    /\ UNCHANGED <<chat, hotelDetails, corporateDetails, room_types, hotelPosts,
                   bookings, now>>

(* ---------------- GET /bookings, /bookings/hotel, /bookings/:id -------- *)

\* res.json(rows): the handler returns the ids of the rows it read
RespondRows(i, rows) ==
    reqs' = [reqs EXCEPT ![i].pc = "done", ![i].resp = 200,
                         ![i].out = Some(rows)]

\* SELECT b.* FROM bookings b JOIN HotelDetails ... WHERE b.UserId = ?
\* (the route has no identity gate)
ListBookings(i) ==
    /\ At(i, "list", "start")
    /\ RespondRows(i, {k \in DOMAIN bookings :
                         bookings[k].UserId = reqs[i].user})
    /\ UNCHANGED store

\* the identity gate, getHotelDetailsId and the !hotelId check
HotelListGetHotel(i) ==
    /\ At(i, "hotelList", "start")
    /\ IF reqs[i].ident # Some("Hotel") THEN Respond(i, 403)
       ELSE IF getHotelDetailsId(reqs[i].user) = Null THEN Respond(i, 404)
       ELSE reqs' = [reqs EXCEPT ![i].pc = "select",
                                 ![i].hotelId = getHotelDetailsId(reqs[i].user)]
    /\ UNCHANGED store

\* SELECT b.* FROM bookings b ... WHERE b.HotelDetails_Id = ?
HotelListSelect(i) ==
    /\ At(i, "hotelList", "select")
    /\ RespondRows(i, {k \in DOMAIN bookings :
                         bookings[k].HotelDetails_Id = Val(reqs[i].hotelId)})
    /\ UNCHANGED store

\* SELECT b.* FROM bookings b ... WHERE b.Id = ? AND b.UserId = ?
GetBooking(i) ==
    /\ At(i, "get", "start")
    /\ IF SelectUserBooking(reqs[i].id, reqs[i].user) = Null
       THEN Respond(i, 404)
       ELSE RespondRows(i, {reqs[i].id})
    /\ UNCHANGED store

(* --------------------------- POST /auth/login -------------------------- *)

\* a request to a route without authMiddleware
NewAnon(kind, body) ==
    [ kind    |-> kind,
      user    |-> 0,
      ident   |-> Null,
      id      |-> 0,
      body    |-> body,
      pc      |-> "start",
      hotelId |-> Null,
      corpId  |-> Null,
      row     |-> Null,
      failed  |-> FALSE,
      resp    |-> 0,
      out     |-> Null ]

\* res.status(code).json({ error: message })
RespondError(i, code, message) ==
    reqs' = [reqs EXCEPT ![i].pc = "done", ![i].resp = code,
                         ![i].out = Some(message)]

\* SELECT ... FROM users WHERE email = ?   (email is UNIQUE)
UserByEmail(email) ==
    LET rows == {u \in DOMAIN users : users[u].email = email}
    IN  IF rows = {} THEN Null ELSE Some(CHOOSE u \in rows : TRUE)

\* the columns of a users row a handler keeps after its SELECT
UserRow(u) ==
    [ id           |-> u,
      password     |-> users[u].password,
      role         |-> users[u].role,
      identityType |-> users[u].identityType ]

\* validationResult(req) and the SELECT by email (every account is active:
\* no route writes isActive)
LoginSelect(i) ==
    /\ At(i, "login", "start")
    /\ LET u == UserByEmail(reqs[i].body.email)
       IN  IF ~reqs[i].body.valid THEN RespondError(i, 400, "errors")
           ELSE IF u = Null THEN RespondError(i, 401, "Invalid credentials")
           ELSE reqs' = [reqs EXCEPT ![i].pc = "compare",
                                     ![i].row = Some(UserRow(Val(u)))]
    /\ UNCHANGED store

\* await bcrypt.compare(password, user.password): it throws into the catch
\* when the stored password is NULL (an account created by the Google
\* callback); then the token with the identityType read by the SELECT
LoginCompare(i) ==
    /\ At(i, "login", "compare")
    /\ LET user == Val(reqs[i].row)
       IN  IF user.password = Null
           THEN RespondError(i, 500, "Login failed") /\ UNCHANGED tokens
           ELSE IF ~Compare(reqs[i].body.password, Val(user.password))
           THEN RespondError(i, 401, "Invalid credentials") /\ UNCHANGED tokens
           ELSE /\ IssueToken(user.id, user.identityType)
                /\ reqs' = [reqs EXCEPT ![i].pc = "done", ![i].resp = 200,
                                        ![i].user = user.id,
                                        ![i].out = Some([role |-> user.role])]
    /\ UNCHANGED <<chat, users, hotelDetails, corporateDetails, room_types,
                   hotelPosts, bookings, now>>

(* -------------------------- POST /auth/register ------------------------ *)

\* faulty variant of the register check: the existing-account SELECT is
\* skipped
RegisterSelectNoCheck(i) ==
    /\ At(i, "register", "start")
    /\ IF ~reqs[i].body.valid THEN RespondError(i, 400, "errors")
       ELSE reqs' = [reqs EXCEPT ![i].pc = "insert"]
    /\ UNCHANGED store

\* validationResult(req) and SELECT id FROM users WHERE email = ?
RegisterSelect(i) ==
    /\ At(i, "register", "start")
    /\ IF ~reqs[i].body.valid THEN RespondError(i, 400, "errors")
       ELSE IF UserByEmail(reqs[i].body.email) # Null
       THEN RespondError(i, 409, "User already exists")
       ELSE reqs' = [reqs EXCEPT ![i].pc = "insert"]
    /\ UNCHANGED store

\* the users row of INSERT INTO users (email, password, ...): identityType
\* and isProfileCompleted take their column defaults
NewUser(email, password, role) ==
    [ email              |-> email,
      password           |-> password,
      role               |-> role,
      identityType       |-> Null,
      isProfileCompleted |-> FALSE ]

\* bcrypt.hash and the INSERT; email is UNIQUE, a refused INSERT throws into
\* the catch (500)
RegisterInsert(i) ==
    /\ At(i, "register", "insert")
    /\ IF UserByEmail(reqs[i].body.email) # Null
       THEN RespondError(i, 500, "Registration failed")
            /\ UNCHANGED <<users, tokens>>
       ELSE /\ users' = Append(users,
                               NewUser(reqs[i].body.email,
                                       Some(Hash(reqs[i].body.password)),
                                       "user"))
            /\ tokens' = Append(tokens, Null)
            /\ reqs' = [reqs EXCEPT ![i].pc = "fetch"]
    /\ UNCHANGED <<chat, hotelDetails, corporateDetails, room_types, hotelPosts,
                   bookings, now>>

\* SELECT ... FROM users WHERE email = ?, the token and the 201
RegisterFetch(i) ==
    /\ At(i, "register", "fetch")
    /\ LET u == Val(UserByEmail(reqs[i].body.email))
       IN  /\ IssueToken(u, users[u].identityType)
           /\ reqs' = [reqs EXCEPT ![i].pc = "done", ![i].resp = 201,
                                   ![i].user = u,
                                   ![i].out = Some([role |-> users[u].role])]
    /\ UNCHANGED <<chat, users, hotelDetails, corporateDetails, room_types,
                   hotelPosts, bookings, now>>

(* ---------------------- POST /auth/google/callback --------------------- *)

\* the emails of process.env.ADMIN_EMAILS
AdminEmails == {"a"}

\* const assignedRole = isAdmin ? 'admin' : 'user'
assignedRole(email) == IF email \in AdminEmails THEN "admin" ELSE "user"

\* the token issued to the account of the users row `user`, carrying its
\* role, and the 200
GoogleRespond(i, user) ==
    /\ IssueToken(user.id, user.identityType)
    /\ reqs' = [reqs EXCEPT ![i].pc = "done", ![i].resp = 200,
                            ![i].user = user.id,
                            ![i].out = Some([role |-> user.role])]

\* the code exchange and the first SELECT by the verified email; an existing
\* account answers at once unless it is to be promoted to admin
GoogleSelect(i) ==
    /\ At(i, "google", "start")
    /\ LET u == UserByEmail(reqs[i].body.email)
       IN  IF ~reqs[i].body.valid
           THEN RespondError(i, 400, "Authorization code required")
                /\ UNCHANGED tokens
           ELSE IF u = Null
           THEN reqs' = [reqs EXCEPT ![i].pc = "insert"] /\ UNCHANGED tokens
           ELSE IF /\ assignedRole(reqs[i].body.email) = "admin"
                   /\ users[Val(u)].role # "admin"
           THEN /\ reqs' = [reqs EXCEPT ![i].pc = "promote",
                                        ![i].row = Some(UserRow(Val(u)))]
                /\ UNCHANGED tokens
           ELSE GoogleRespond(i, UserRow(Val(u)))
    /\ UNCHANGED <<chat, users, hotelDetails, corporateDetails, room_types,
                   hotelPosts, bookings, now>>

\* UPDATE users SET role = 'admin' WHERE id = ?, then the token with
\* userRole = 'admin'
GooglePromote(i) ==
    /\ At(i, "google", "promote")
    /\ users' = [users EXCEPT ![Val(reqs[i].row).id].role = "admin"]
    /\ GoogleRespond(i, [Val(reqs[i].row) EXCEPT !.role = "admin"])
    /\ UNCHANGED <<chat, hotelDetails, corporateDetails, room_types, hotelPosts,
                   bookings, now>>

\* faulty variant of the INSERT: a duplicate entry is not caught apart and
\* reaches the outer catch (500)
GoogleInsertNoRecovery(i) ==
    /\ At(i, "google", "insert")
    /\ IF UserByEmail(reqs[i].body.email) # Null
       THEN /\ RespondError(i, 500, "Google authentication failed")
            /\ UNCHANGED <<users, tokens>>
       ELSE /\ users' = Append(users, NewUser(reqs[i].body.email, Null,
                                              assignedRole(reqs[i].body.email)))
            /\ tokens' = Append(tokens, Null)
            /\ reqs' = [reqs EXCEPT ![i].pc = "fetch"]
    /\ UNCHANGED <<chat, hotelDetails, corporateDetails, room_types, hotelPosts,
                   bookings, now>>

\* INSERT INTO users (email, password, ..., role, ...) VALUES (?, null, ...,
\* assignedRole, ...); a duplicate entry (ER_DUP_ENTRY) is caught and the
\* handler goes on to read the existing row
GoogleInsert(i) ==
    /\ At(i, "google", "insert")
    /\ IF UserByEmail(reqs[i].body.email) # Null
       THEN /\ reqs' = [reqs EXCEPT ![i].pc = "fetch",
                                    ![i].row = Some("ER_DUP_ENTRY")]
            /\ UNCHANGED <<users, tokens>>
       ELSE /\ users' = Append(users, NewUser(reqs[i].body.email, Null,
                                              assignedRole(reqs[i].body.email)))
            /\ tokens' = Append(tokens, Null)
            /\ reqs' = [reqs EXCEPT ![i].pc = "fetch"]
    /\ UNCHANGED <<chat, hotelDetails, corporateDetails, room_types, hotelPosts,
                   bookings, now>>

\* the SELECT of the new (or, after a duplicate entry, the existing) row
\* and the token with that row's role
GoogleFetch(i) ==
    /\ At(i, "google", "fetch")
    /\ GoogleRespond(i, UserRow(Val(UserByEmail(reqs[i].body.email))))
    /\ UNCHANGED <<chat, users, hotelDetails, corporateDetails, room_types,
                   hotelPosts, bookings, now>>

(* ------------------------------ POST /chat ---------------------------- *)

\* the body and identity checks and the profile lookup of the sender
ChatSendGetProfile(i) ==
    /\ At(i, "chatSend", "start")
    /\ LET r == reqs[i]
           corpId  == IF r.ident = Some("Corporate")
                      THEN getCorporateDetailsId(r.user) ELSE r.body.recipientId
           hotelId == IF r.ident = Some("Hotel")
                      THEN getHotelDetailsId(r.user) ELSE r.body.recipientId
       IN  IF ~TruthyNum(r.body.recipientId) \/ ~TruthyStr(r.body.message)
           THEN Respond(i, 400)
           ELSE IF r.ident \notin {Some("Corporate"), Some("Hotel")}
           THEN Respond(i, 403)
           ELSE IF ~TruthyNum(corpId) \/ ~TruthyNum(hotelId)
           THEN Respond(i, 404)
           ELSE reqs' = [reqs EXCEPT ![i].pc = "insert", ![i].corpId = corpId,
                                     ![i].hotelId = hotelId]
    /\ UNCHANGED store

\* INSERT INTO Chat (...) VALUES (corpId, hotelId, postId || null, message,
\* senderType) under fk_chat_corp, fk_chat_hotel and fk_chat_post
ChatSendInsert(i) ==
    /\ At(i, "chatSend", "insert")
    /\ LET r == reqs[i]
           postId == IF TruthyNum(r.body.postId) THEN r.body.postId ELSE Null
       IN  IF \/ Val(r.corpId) \notin DOMAIN corporateDetails
              \/ Val(r.hotelId) \notin DOMAIN hotelDetails
              \/ /\ postId # Null
                 /\ \/ Val(postId) \notin PostIds
                    \/ hotelPosts[Val(postId)] = Null
           THEN Respond(i, 500) /\ UNCHANGED <<chat, now>>
           ELSE /\ chat' = Append(chat,
                     [ CorporateDetails_Id |-> Val(r.corpId),
                       HotelDetails_Id     |-> Val(r.hotelId),
                       HotelPosts_Id       |-> postId,
                       Message             |-> Val(r.body.message),
                       SenderType          |-> Val(r.ident),
                       CreatedAt           |-> now ])
                /\ now' = now + 1
                /\ Respond(i, 201)
    /\ UNCHANGED <<tokens, users, hotelDetails, corporateDetails, room_types,
                   hotelPosts, bookings>>

(* ---------------------------- GET /chat/inbox -------------------------- *)

\* the profile lookup of the caller; for a token of neither identityType
\* the query stays '' and executeQuery rejects it
InboxGetProfile(i) ==
    /\ At(i, "inbox", "start")
    /\ IF reqs[i].ident = Some("Corporate")
       THEN reqs' = [reqs EXCEPT ![i].pc = "query",
                                 ![i].corpId = getCorporateDetailsId(reqs[i].user)]
       ELSE IF reqs[i].ident = Some("Hotel")
       THEN reqs' = [reqs EXCEPT ![i].pc = "query",
                                 ![i].hotelId = getHotelDetailsId(reqs[i].user)]
       ELSE Respond(i, 500)
    /\ UNCHANGED store

\* the Chat rows of the caller that join a partner profile, and the
\* partner of each
InboxMessages(r) ==
    IF r.ident = Some("Corporate")
    THEN {k \in DOMAIN chat : /\ r.corpId # Null
                              /\ chat[k].CorporateDetails_Id = Val(r.corpId)
                              /\ chat[k].HotelDetails_Id \in DOMAIN hotelDetails}
    ELSE {k \in DOMAIN chat : /\ r.hotelId # Null
                              /\ chat[k].HotelDetails_Id = Val(r.hotelId)
                              /\ chat[k].CorporateDetails_Id
                                     \in DOMAIN corporateDetails}

InboxPartner(r, k) ==
    IF r.ident = Some("Corporate") THEN chat[k].HotelDetails_Id
    ELSE chat[k].CorporateDetails_Id

\* MAX(c.CreatedAt) over a group
MaxCreatedAt(group) ==
    CHOOSE t \in {chat[k].CreatedAt : k \in group} :
        \A k \in group : chat[k].CreatedAt <= t

\* SELECT partner.Id, ..., c.HotelPosts_Id, MAX(c.CreatedAt) ... GROUP BY
\* partner.Id, ..., c.HotelPosts_Id
InboxRows(r) ==
    LET mine == InboxMessages(r)
        Group(k) == {j \in mine : /\ InboxPartner(r, j) = InboxPartner(r, k)
                                  /\ chat[j].HotelPosts_Id = chat[k].HotelPosts_Id}
    IN  { [ Id              |-> InboxPartner(r, k),
            HotelPosts_Id   |-> chat[k].HotelPosts_Id,
            LastMessageTime |-> MaxCreatedAt(Group(k)) ] : k \in mine }

\* ORDER BY LastMessageTime DESC: every order of the rows that is
\* descending in LastMessageTime
OrderedDesc(rows) ==
    { s \in [1 .. Cardinality(rows) -> rows] :
        /\ \A a, b \in DOMAIN s : a # b => s[a] # s[b]
        /\ \A a, b \in DOMAIN s :
               a < b => s[a].LastMessageTime >= s[b].LastMessageTime }

InboxQuery(i) ==
    /\ At(i, "inbox", "query")
    /\ \E s \in OrderedDesc(InboxRows(reqs[i])) :
         reqs' = [reqs EXCEPT ![i].pc = "done", ![i].resp = 200,
                              ![i].out = Some(s)]
    /\ UNCHANGED store

(* ------------------------ GET /chat/post/:postId ----------------------- *)

\* getHotelDetailsId and the !hotelId check (req.user is set by
\* authMiddleware)
PostChatGetHotel(i) ==
    /\ At(i, "postChat", "start")
    /\ IF getHotelDetailsId(reqs[i].user) = Null THEN Respond(i, 404)
       ELSE reqs' = [reqs EXCEPT ![i].pc = "check",
                                 ![i].hotelId = getHotelDetailsId(reqs[i].user)]
    /\ UNCHANGED store

\* SELECT Id FROM HotelPosts WHERE Id = ? AND HotelDetails_Id = ? and the
\* 403 for a post of another hotel
PostChatCheck(i) ==
    /\ At(i, "postChat", "check")
    /\ IF ~OwnsPost(reqs[i].id, reqs[i].hotelId) THEN Respond(i, 403)
       ELSE reqs' = [reqs EXCEPT ![i].pc = "query"]
    /\ UNCHANGED store

\* the corporate clients with a message about the post to the hotel
PostChatQuery(i) ==
    /\ At(i, "postChat", "query")
    /\ RespondRows(i, { chat[k].CorporateDetails_Id :
                          k \in { j \in DOMAIN chat :
                                    /\ chat[j].HotelPosts_Id = Some(reqs[i].id)
                                    /\ chat[j].HotelDetails_Id = Val(reqs[i].hotelId)
                                    /\ chat[j].CorporateDetails_Id
                                           \in DOMAIN corporateDetails } })
    /\ UNCHANGED store

ChatStep(i) ==
    \/ ChatSendGetProfile(i)
    \/ ChatSendInsert(i)
    \/ InboxGetProfile(i)
    \/ InboxQuery(i)
    \/ PostChatGetHotel(i)
    \/ PostChatCheck(i)
    \/ PostChatQuery(i)

(* -------------------------- storage failures --------------------------- *)

\* GET /bookings/hotel when the query of getHotelDetailsId rejects: the
\* helper's catch returns null and the handler answers as for no profile
HotelListGetHotelFails(i) ==
    /\ At(i, "hotelList", "start")
    /\ reqs[i].ident = Some("Hotel")
    /\ reqs' = [reqs EXCEPT ![i].pc = "done", ![i].resp = 404,
                            ![i].failed = TRUE]
    /\ UNCHANGED store

\* GET /bookings/hotel when its SELECT rejects: the handler's catch
HotelListSelectFails(i) ==
    /\ At(i, "hotelList", "select")
    /\ reqs' = [reqs EXCEPT ![i].pc = "done", ![i].resp = 500,
                            ![i].failed = TRUE]
    /\ UNCHANGED store

\* POST /bookings when the query of getCorporateDetailsId rejects: the
\* helper's catch returns null and the handler goes on with corporateId null
CreateGetCorporateFails(i) ==
    /\ At(i, "create", "corp")
    /\ reqs' = [reqs EXCEPT ![i].pc = "insert", ![i].corpId = Null,
                            ![i].failed = TRUE]
    /\ UNCHANGED store

(* --------------------------- request arrival -------------------------- *)

NoBody == [none |-> TRUE]

\* a request enters its handler.  The event loop runs one handler at a
\* time up to its first storage statement, so a request is admitted once
\* every earlier one has issued its first statement; a create is admitted
\* only while the bookings table has room for its row
Arrive(templates) ==
    /\ Len(reqs) < MaxReq
    /\ \A i \in DOMAIN reqs : reqs[i].pc # "start"
    /\ \E r \in templates :
         /\ r.kind = "create" =>
              Len(bookings) + InFlight("create") < MaxBookings
         /\ reqs' = Append(reqs, r)
    /\ UNCHANGED store

CreateStep(i) ==
    \/ CreateSelectRoomType(i)
    \/ CreateGetCorporate(i)
    \/ CreateInsert(i)

DecisionStep(i) ==
    \/ ApproveGetHotel(i)
    \/ ApproveSelect(i)
    \/ ApproveUpdate(i)
    \/ RejectGetHotel(i)
    \/ RejectSelect(i)
    \/ RejectUpdate(i)
    \/ CancelSelect(i)
    \/ CancelUpdate(i)

RoomTypeStep(i) ==
    \/ RoomTypeUpdateGetHotel(i)
    \/ RoomTypeUpdateSelect(i)
    \/ RoomTypeUpdateWrite(i)
    \/ RoomTypeDeleteGetHotel(i)
    \/ RoomTypeDeleteExec(i)

PostStep(i) ==
    \/ PostUpdateGetHotel(i)
    \/ PostUpdateSelect(i)
    \/ PostUpdateWrite(i)
    \/ PostDeleteGetHotel(i)
    \/ PostDeleteExec(i)

IdentityStep(i) ==
    \/ SetIdentity(i)
    \/ HotelProfileSelect(i)
    \/ HotelProfileWrite(i)
    \/ HotelProfileComplete(i)
    \/ CorporateProfileSelect(i)
    \/ CorporateProfileWrite(i)
    \/ CorporateProfileComplete(i)

AuthStep(i) ==
    \/ LoginSelect(i)
    \/ LoginCompare(i)
    \/ RegisterSelect(i)
    \/ RegisterInsert(i)
    \/ RegisterFetch(i)
    \/ GoogleSelect(i)
    \/ GooglePromote(i)
    \/ GoogleInsert(i)
    \/ GoogleFetch(i)

ReadStep(i) ==
    \/ ListBookings(i)
    \/ HotelListGetHotel(i)
    \/ HotelListSelect(i)
    \/ GetBooking(i)

(* ---------------- the booking workflow: Spec -------------------------- *)

\* reason absent, empty, and given
Reasons == {Null, Some(""), Some("full")}

\* a two-night stay in the room type rt of hotel 1, roomCount absent
WorkflowBodies ==
    { [hotelDetailsId |-> 1, roomTypeId |-> rt, checkIn |-> 0, checkOut |-> 4,
       roomCount |-> Null, complete |-> TRUE] : rt \in RoomTypeIds }

WorkflowRequests ==
         { NewReq("create", u, 0, b) : u \in {1, 3}, b \in WorkflowBodies }
    \cup { NewReq("approve", u, id, NoBody) : u \in UserIds, id \in BookingIds }
    \cup { NewReq("reject", 1, id, [reason |-> rs]) :
             id \in BookingIds, rs \in Reasons }
    \cup { NewReq("reject", 2, id, [reason |-> Null]) : id \in BookingIds }
    \cup { NewReq("cancel", u, id, NoBody) : u \in {1, 3}, id \in BookingIds }

Start == Arrive(WorkflowRequests)

Next ==
    \/ Start
    \/ \E i \in 1 .. MaxReq : CreateStep(i)
    \/ \E i \in 1 .. MaxReq : DecisionStep(i)

Spec == Init /\ [][Next]_vars

(* ------------- owner and non-owner mutations: SpecOwner --------------- *)

\* a body of PUT /room-types/:id with every field absent
NoFields ==
    [ name |-> Null, description |-> Null, capacity |-> Null,
      basePrice |-> Null, corporatePrice |-> Null, amenities |-> Null,
      isActive |-> Null ]

\* bodies of PUT /room-types/:id: deactivate, a corporate price of "0",
\* a new base price
RoomTypeBodies ==
    { [NoFields EXCEPT !.isActive = Some(FALSE)],
      [NoFields EXCEPT !.corporatePrice = JsStr(0)],
      [NoFields EXCEPT !.basePrice = JsNum(200)] }

Deactivate == [NoFields EXCEPT !.isActive = Some(FALSE)]

PostBodies == { [title |-> "deal", price |-> JsNum(90)] }

\* every mutation of a booking, a room type and a post, by each hotel
\* account and by the corporate account
OwnerRequests ==
         { NewReq("approve", u, 1, NoBody) : u \in UserIds }
    \cup { NewReq("reject", u, 1, [reason |-> Some("full")]) : u \in {1, 2} }
    \cup { NewReq("cancel", u, 1, NoBody) : u \in {1, 3} }
    \cup { NewReq("rtUpdate", u, id, Deactivate) :
             u \in UserIds, id \in RoomTypeIds }
    \cup { NewReq("rtDelete", u, id, NoBody) : u \in {1, 2}, id \in RoomTypeIds }
    \cup { NewReq("postUpdate", u, id, b) :
             u \in UserIds, id \in PostIds, b \in PostBodies }
    \cup { NewReq("postDelete", u, id, NoBody) : u \in {1, 2}, id \in PostIds }

StartOwner == Arrive(OwnerRequests)

NextOwner ==
    \/ StartOwner
    \/ \E i \in 1 .. MaxReq : DecisionStep(i)
    \/ \E i \in 1 .. MaxReq : RoomTypeStep(i)
    \/ \E i \in 1 .. MaxReq : PostStep(i)

SpecOwner == Init /\ [][NextOwner]_vars

(* ---------- booking creation against the catalog: SpecCreate ---------- *)

\* check-in and check-out instants in half days: two nights, a day and a
\* half, and a check-out before the check-in
Stays == { <<0, 4>>, <<0, 3>>, <<3, 0>> }

RoomCounts == {Null, Some(0), Some(1), Some(2)}

CreateBodies ==
         { [hotelDetailsId |-> 1, roomTypeId |-> 1, checkIn |-> st[1],
            checkOut |-> st[2], roomCount |-> rc, complete |-> TRUE] :
             st \in Stays, rc \in RoomCounts }
    \cup { [hotelDetailsId |-> 2, roomTypeId |-> 2, checkIn |-> 0,
            checkOut |-> 3, roomCount |-> rc, complete |-> TRUE] :
             rc \in {Null, Some(2)} }
    \cup { [hotelDetailsId |-> 1, roomTypeId |-> 2, checkIn |-> 0,
            checkOut |-> 4, roomCount |-> Null, complete |-> TRUE],
           [hotelDetailsId |-> 1, roomTypeId |-> 1, checkIn |-> 0,
            checkOut |-> 4, roomCount |-> Null, complete |-> FALSE] }

CreateRequests ==
         { NewReq("create", 3, 0, b) : b \in CreateBodies }
    \cup { NewReq("rtUpdate", 1, 1, b) : b \in RoomTypeBodies }
    \cup { NewReq("rtUpdate", 2, 2, b) : b \in RoomTypeBodies }
    \cup { NewReq("rtDelete", u, u, NoBody) : u \in {1, 2} }

StartCreate == Arrive(CreateRequests)

NextCreate ==
    \/ StartCreate
    \/ \E i \in 1 .. MaxReq : CreateStep(i)
    \/ \E i \in 1 .. MaxReq : RoomTypeStep(i)

SpecCreate == Init /\ [][NextCreate]_vars

(* ======================= the booking state machine ==================== *)

AllowedEdges ==
    { <<"pending", "confirmed">>, <<"pending", "rejected">>,
      <<"pending", "cancelled">>, <<"confirmed", "cancelled">> }

\* request i is the one that takes the step
Moves(i) == i \in DOMAIN reqs /\ reqs'[i] # reqs[i]

\* the caller of the approve/reject request r owns the hotel of its booking
OwnsBooking(r) ==
    /\ r.id \in DOMAIN bookings
    /\ r.ident = Some("Hotel")
    /\ getHotelDetailsId(r.user) = Some(bookings[r.id].HotelDetails_Id)

\* the caller of the cancel request r created its booking
IsRequester(r) ==
    /\ r.id \in DOMAIN bookings
    /\ bookings[r.id].UserId = r.user

\* C1: under every interleaving of create, approve, reject and cancel, each
\* change of a booking's stored BookingStatus follows an allowed edge
\* (pending->confirmed, pending->rejected, pending->cancelled,
\* confirmed->cancelled); a rejected, cancelled or completed booking never
\* changes status again.
C1_StatusFollowsAllowedEdges ==
    [][\A k \in DOMAIN bookings :
         bookings'[k].BookingStatus # bookings[k].BookingStatus =>
           <<bookings[k].BookingStatus, bookings'[k].BookingStatus>>
             \in AllowedEdges]_vars

\* C2: of two approve calls by the owning hotel on the same booking, when one
\* has succeeded the other, once answered, has observed a non-pending status
\* and failed with 400: exactly one of them succeeds.
C2_ExactlyOneApproveSucceeds ==
    \A i, j \in DOMAIN reqs :
      ( /\ i # j
        /\ reqs[i].kind = "approve" /\ reqs[j].kind = "approve"
        /\ reqs[i].id = reqs[j].id
        /\ OwnsBooking(reqs[i]) /\ OwnsBooking(reqs[j])
        /\ reqs[i].resp = 200
        /\ reqs[j].pc = "done" )
      => /\ reqs[j].resp = 400
         /\ reqs[j].row # Some("pending")

\* C3: of an approve and a reject on the same booking at most one reports
\* success, and while no cancel is issued the stored status is the one
\* written by the call that reported success.
C3_AtMostOneDecisionSucceeds ==
    \A i, j \in DOMAIN reqs :
      ( /\ reqs[i].kind = "approve" /\ reqs[j].kind = "reject"
        /\ reqs[i].id = reqs[j].id
        /\ reqs[i].pc = "done" /\ reqs[j].pc = "done" )
      => /\ ~(reqs[i].resp = 200 /\ reqs[j].resp = 200)
         /\ ( /\ reqs[i].resp = 200
              /\ \A k \in DOMAIN reqs : reqs[k].kind \notin {"cancel", "reject"}
                                        \/ reqs[k].resp # 200 )
            => bookings[reqs[i].id].BookingStatus = "confirmed"
         /\ ( /\ reqs[j].resp = 200
              /\ \A k \in DOMAIN reqs : reqs[k].kind \notin {"cancel", "approve"}
                                        \/ reqs[k].resp # 200 )
            => bookings[reqs[j].id].BookingStatus = "rejected"

\* C4: an approve by the hotel that owns the booking passes its status check
\* exactly when the stored status it reads is pending, and is answered 400
\* for any other stored status; it succeeds only after having read pending,
\* and the step that answers 200 leaves the stored status confirmed and the
\* approval timestamp set.
C4_ApproveContract ==
    [][\A i \in DOMAIN reqs :
         (reqs[i].kind = "approve" /\ Moves(i)) =>
           /\ (reqs[i].pc = "select" /\ OwnsBooking(reqs[i])) =>
                IF bookings[reqs[i].id].BookingStatus = "pending"
                THEN reqs'[i].pc = "update" /\ reqs'[i].resp = 0
                ELSE reqs'[i].pc = "done" /\ reqs'[i].resp = 400
           /\ reqs'[i].resp = 200 =>
                /\ reqs[i].pc = "update"
                /\ reqs[i].row = Some("pending")
                /\ OwnsBooking(reqs[i])
                /\ bookings'[reqs[i].id].BookingStatus = "confirmed"
                /\ bookings'[reqs[i].id].ApprovedAt = Some(now)]_vars

\* C4 witness: an approve of the owning hotel has succeeded and another
\* approve of it was answered 400
C4_Witness ==
    \E i, j \in DOMAIN reqs :
      /\ reqs[i].kind = "approve" /\ reqs[i].resp = 200
      /\ reqs[j].kind = "approve" /\ reqs[j].resp = 400
      /\ OwnsBooking(reqs[i]) /\ OwnsBooking(reqs[j])
      /\ bookings[reqs[i].id].BookingStatus = "confirmed"
      /\ bookings[reqs[i].id].ApprovedAt # Null

\* the checks and the status written by a reject, common to the claim as
\* stated and as amended
RejectChecks(i) ==
    /\ (reqs[i].pc = "select" /\ OwnsBooking(reqs[i])) =>
         IF bookings[reqs[i].id].BookingStatus = "pending"
         THEN reqs'[i].pc = "update" /\ reqs'[i].resp = 0
         ELSE reqs'[i].pc = "done" /\ reqs'[i].resp = 400
    /\ reqs'[i].resp = 200 =>
         /\ reqs[i].pc = "update"
         /\ reqs[i].row = Some("pending")
         /\ OwnsBooking(reqs[i])
         /\ bookings'[reqs[i].id].BookingStatus = "rejected"

\* C5 as stated: a reject by the owning hotel succeeds only on a status read
\* as pending, fails with 400 otherwise, and on success stores status
\* rejected and the given reason (null if none was given).
C5_RejectStoresGivenReason ==
    [][\A i \in DOMAIN reqs :
         (reqs[i].kind = "reject" /\ Moves(i)) =>
           /\ RejectChecks(i)
           /\ reqs'[i].resp = 200 =>
                bookings'[reqs[i].id].RejectionReason = reqs[i].body.reason]_vars

\* C5 as amended: the same, the stored reason being the given reason when it
\* is a non-empty string and null when no reason or an empty one was given.
C5_RejectStoresNonEmptyReason ==
    [][\A i \in DOMAIN reqs :
         (reqs[i].kind = "reject" /\ Moves(i)) =>
           /\ RejectChecks(i)
           /\ reqs'[i].resp = 200 =>
                bookings'[reqs[i].id].RejectionReason =
                  IF reqs[i].body.reason \in {Null, Some("")} THEN Null
                  ELSE reqs[i].body.reason]_vars

\* C5 witness: a reject with an empty reason and one with a reason have both
\* succeeded, the first storing null
C5_Witness ==
    \E i \in DOMAIN reqs :
      /\ reqs[i].kind = "reject" /\ reqs[i].resp = 200
      /\ reqs[i].body.reason = Some("")
      /\ bookings[reqs[i].id].BookingStatus = "rejected"
      /\ bookings[reqs[i].id].RejectionReason = Null

\* C6: a cancel by the account that created the booking passes its status
\* check exactly when the stored status it reads is pending or confirmed,
\* and is answered 400 for any other stored status; it succeeds only after
\* having read pending or confirmed, and the step that answers 200 leaves
\* the stored status cancelled.
C6_CancelContract ==
    [][\A i \in DOMAIN reqs :
         (reqs[i].kind = "cancel" /\ Moves(i)) =>
           /\ (reqs[i].pc = "start" /\ IsRequester(reqs[i])) =>
                IF bookings[reqs[i].id].BookingStatus \in {"pending", "confirmed"}
                THEN reqs'[i].pc = "update" /\ reqs'[i].resp = 0
                ELSE reqs'[i].pc = "done" /\ reqs'[i].resp = 400
           /\ reqs'[i].resp = 200 =>
                /\ reqs[i].pc = "update"
                /\ reqs[i].row \in {Some("pending"), Some("confirmed")}
                /\ IsRequester(reqs[i])
                /\ bookings'[reqs[i].id].BookingStatus = "cancelled"]_vars

\* C6 witness: the requester has cancelled a booking read as confirmed
C6_Witness ==
    \E i \in DOMAIN reqs :
      /\ reqs[i].kind = "cancel" /\ reqs[i].resp = 200
      /\ reqs[i].row = Some("confirmed")
      /\ IsRequester(reqs[i])
      /\ bookings[reqs[i].id].BookingStatus = "cancelled"

\* the status check of request r finds the booking outside the source
\* states of its transition
OutsideSourceState(r) ==
    \/ /\ r.kind \in {"approve", "reject"} /\ r.pc = "select"
       /\ OwnsBooking(r)
       /\ bookings[r.id].BookingStatus # "pending"
    \/ /\ r.kind = "cancel" /\ r.pc = "start"
       /\ IsRequester(r)
       /\ bookings[r.id].BookingStatus \notin {"pending", "confirmed"}

\* C7: an approve, reject or cancel whose status check finds the booking
\* outside the required source state is answered 400 and leaves every
\* booking's status, approval timestamp and rejection reason unchanged.
C7_WrongStateLeavesBookingUnchanged ==
    [][\A i \in DOMAIN reqs :
         (Moves(i) /\ OutsideSourceState(reqs[i])) =>
           /\ reqs'[i].pc = "done"
           /\ reqs'[i].resp = 400
           /\ bookings' = bookings]_vars

\* C7 witness: an approve of an already confirmed booking was answered 400
\* and the booking is still confirmed
C7_Witness ==
    \E i \in DOMAIN reqs :
      /\ reqs[i].kind = "approve" /\ reqs[i].resp = 400
      /\ reqs[i].row = Some("confirmed")
      /\ OwnsBooking(reqs[i])
      /\ bookings[reqs[i].id].BookingStatus = "confirmed"
      /\ bookings[reqs[i].id].ApprovedAt # Null

(* ============================ ownership =============================== *)

\* request r is a mutation of a record that exists and that its caller does
\* not own: a room type, a post or a booking of another hotel for a Hotel
\* caller, a booking of another account for a cancel
NonOwner(r) ==
    \/ /\ r.kind \in {"rtUpdate", "rtDelete"}
       /\ r.ident = Some("Hotel")
       /\ r.id \in RoomTypeIds /\ room_types[r.id] # Null
       /\ getHotelDetailsId(r.user) # Some(Val(room_types[r.id]).HotelDetails_Id)
    \/ /\ r.kind \in {"postUpdate", "postDelete"}
       /\ r.ident = Some("Hotel")
       /\ r.id \in PostIds /\ hotelPosts[r.id] # Null
       /\ getHotelDetailsId(r.user) # Some(Val(hotelPosts[r.id]).HotelDetails_Id)
    \/ /\ r.kind \in {"approve", "reject"}
       /\ r.ident = Some("Hotel")
       /\ r.id \in DOMAIN bookings
       /\ getHotelDetailsId(r.user) # Some(bookings[r.id].HotelDetails_Id)
    \/ /\ r.kind = "cancel"
       /\ r.id \in DOMAIN bookings
       /\ bookings[r.id].UserId # r.user

\* C8: no step of a mutation whose caller does not own the target changes a
\* booking, a room type or a post, and the request is answered 404 (never
\* 403 and never a success).
C8_NonOwnerGetsNotFound ==
    [][\A i \in DOMAIN reqs :
         (Moves(i) /\ NonOwner(reqs[i])) =>
           /\ UNCHANGED <<bookings, room_types, hotelPosts>>
           /\ reqs'[i].pc = "done" => reqs'[i].resp = 404]_vars

\* C8 witness: a room-type update and a reject by the other hotel were both
\* answered 404 and their targets are still there
C8_Witness ==
    \E i, j \in DOMAIN reqs :
      /\ reqs[i].kind = "rtUpdate" /\ NonOwner(reqs[i])
      /\ reqs[i].pc = "done" /\ reqs[i].resp = 404
      /\ Val(room_types[reqs[i].id]).IsActive
      /\ reqs[j].kind = "reject" /\ NonOwner(reqs[j])
      /\ reqs[j].pc = "done" /\ reqs[j].resp = 404
      /\ bookings[reqs[j].id].BookingStatus = "pending"

(* ========================= booking creation =========================== *)

\* C9: at the step that inserts a booking, the room type it references
\* exists, is active and belongs to the hotel the booking references, under
\* every interleaving of create with room-type update and delete; a create
\* whose room-type lookup finds no such room type inserts nothing.
C9_InsertReferencesActiveRoomType ==
    [][/\ Len(bookings') > Len(bookings) =>
            LET row == bookings'[Len(bookings')]
            IN  /\ row.RoomTypes_Id \in RoomTypeIds
                /\ room_types[row.RoomTypes_Id] # Null
                /\ Val(room_types[row.RoomTypes_Id]).IsActive
                /\ Val(room_types[row.RoomTypes_Id]).HotelDetails_Id
                     = row.HotelDetails_Id
       /\ \A i \in DOMAIN reqs :
            ( /\ reqs[i].kind = "create" /\ reqs[i].pc = "start" /\ Moves(i)
              /\ SelectActiveRoomType(reqs[i].body.roomTypeId,
                                      reqs[i].body.hotelDetailsId) = Null )
            => reqs'[i].pc = "done" /\ bookings' = bookings]_vars

\* the price the room type row read by a create quotes to a corporate
\* booker: corporatePrice if present, otherwise basePrice
QuotedPrice(info) ==
    IF info.CorporatePrice # Null THEN Val(info.CorporatePrice)
    ELSE info.BasePrice

\* the number of rooms a create asks for, one when the body names none
RequestedRooms(body) ==
    IF body.roomCount # Null THEN Val(body.roomCount) ELSE 1

\* C10: the totalPrice stored and returned by a create equals
\* (corporatePrice if present, otherwise basePrice) x nights x roomCount,
\* with nights the ceiling of the day difference, for every basePrice,
\* corporatePrice (absent and 0 included), dates and roomCount.
C10_TotalPriceFormula ==
    \A i \in DOMAIN reqs :
      (reqs[i].kind = "create" /\ reqs[i].resp = 201) =>
        LET r        == reqs[i]
            expected == QuotedPrice(Val(r.row))
                          * Ceil(r.body.checkOut - r.body.checkIn, DayUnits)
                          * RequestedRooms(r.body)
        IN  /\ Val(r.out).totalPrice = expected
            /\ bookings[Val(r.out).id].TotalPrice = expected

(* ------- bookings against a changing catalog: SpecSnapshot ------------ *)

\* a two-night stay in room type 1 of hotel 1 by the corporate account, the
\* owner's updates and delete of that room type, and the decisions on
\* booking 1
SnapshotRequests ==
         { NewReq("create", 3, 0,
                  [hotelDetailsId |-> 1, roomTypeId |-> 1, checkIn |-> 0,
                   checkOut |-> 4, roomCount |-> Some(2), complete |-> TRUE]) }
    \cup { NewReq("rtUpdate", 1, 1, b) : b \in RoomTypeBodies }
    \cup { NewReq("rtDelete", 1, 1, NoBody),
           NewReq("rtDelete", 2, 2, NoBody),
           NewReq("approve", 1, 1, NoBody),
           NewReq("reject", 1, 1, [reason |-> Some("full")]),
           NewReq("cancel", 3, 1, NoBody) }

StartSnapshot == Arrive(SnapshotRequests)

NextSnapshot ==
    \/ StartSnapshot
    \/ \E i \in 1 .. MaxReq : CreateStep(i)
    \/ \E i \in 1 .. MaxReq : DecisionStep(i)
    \/ \E i \in 1 .. MaxReq : RoomTypeStep(i)

SpecSnapshot == Init /\ [][NextSnapshot]_vars

\* C11: no step of a room-type update or delete, an approve, a reject, a
\* cancel or a later create changes the TotalPrice of a stored booking, nor
\* removes the booking.
C11_TotalPriceIsSnapshot ==
    [][\A k \in DOMAIN bookings :
         /\ k \in DOMAIN bookings'
         /\ bookings'[k].TotalPrice = bookings[k].TotalPrice]_vars

\* C11 witness: the owner has set the corporate price of room type 1 to 0
\* and approved booking 1, whose TotalPrice is still the one it was created
\* with and not the one the current catalog gives
C11_Witness ==
    /\ room_types[1] # Null
    /\ Val(room_types[1]).CorporatePrice = Some(0)
    /\ bookings[1].BookingStatus = "confirmed"
    /\ bookings[1].RoomTypes_Id = 1
    /\ bookings[1].TotalPrice = 240
    /\ bookings[1].TotalPrice #
         pricePerNight(Val(room_types[1]))
           * nights(bookings[1].CheckIn, bookings[1].CheckOut)
           * bookings[1].RoomQuantity

(* ========================= booking numbers ============================ *)

\* C12: after every step no two stored bookings share a BookingNumber, and
\* no step changes the BookingNumber of a stored booking.
C12_BookingNumberUniqueAndImmutable ==
    [][/\ \A k \in DOMAIN bookings :
            /\ k \in DOMAIN bookings'
            /\ bookings'[k].BookingNumber = bookings[k].BookingNumber
       /\ \A j, k \in DOMAIN bookings' :
            j # k => bookings'[j].BookingNumber # bookings'[k].BookingNumber]_vars

\* C12 witness: a create whose generated number was already taken has been
\* refused, and another create has stored a second booking under a fresh
\* number
C12_Witness ==
    /\ Len(bookings) = 2
    /\ bookings[1].BookingNumber # bookings[2].BookingNumber
    /\ \E i, j \in DOMAIN reqs :
         /\ reqs[i].kind = "create" /\ reqs[i].resp = 500
         /\ reqs[j].kind = "create" /\ reqs[j].resp = 201

\* the create request i runs its INSERT while the hotel and the room type
\* it names exist
InsertsWithParents(i) ==
    /\ reqs[i].kind = "create" /\ reqs[i].pc = "insert"
    /\ reqs'[i].pc = "done"
    /\ reqs[i].body.hotelDetailsId \in DOMAIN hotelDetails
    /\ room_types[reqs[i].body.roomTypeId] # Null

\* C13: a create that has passed its checks and whose hotel and room type
\* still exist stores its booking and answers 201 whatever number was
\* generated first: a collision is retried and never answered with an error.
C13_CollisionIsRetried ==
    [][\A i \in DOMAIN reqs :
         InsertsWithParents(i) =>
           /\ reqs'[i].resp = 201
           /\ Len(bookings') = Len(bookings) + 1]_vars

(* ------- reads and role-scoped operations by role: SpecAccess --------- *)

\* identityType in the body of POST /set-identity: none, not a role, and
\* the two roles
IdentityTypes == {Null, Some("Guest"), Some("Hotel"), Some("Corporate")}

\* account 4 has no identityType and no profile, account 3 is the corporate
\* requester of booking 1, account 1 owns hotel 1
AccessRequests ==
         { NewReq("setIdentity", u, 0, [identityType |-> t]) :
             u \in {3, 4}, t \in IdentityTypes }
    \cup { NewReq("create", u, 0, b) : u \in {3, 4}, b \in WorkflowBodies }
    \cup { NewReq("list", u, 0, NoBody) : u \in {1, 3, 4} }
    \cup { NewReq("hotelList", u, 0, NoBody) : u \in {1, 3, 4} }
    \cup { NewReq("get", u, 1, NoBody) : u \in {1, 2, 3} }
    \cup { NewReq("approve", u, 1, NoBody) : u \in {1, 4} }
    \cup { NewReq("reject", u, 1, [reason |-> Null]) : u \in {1, 4} }
    \cup { NewReq("cancel", 3, 1, NoBody) }
    \cup { NewReq("rtUpdate", u, 1, Deactivate) : u \in {1, 4} }
    \cup { NewReq("rtDelete", u, 2, NoBody) : u \in {2, 4} }

StartAccess == Arrive(AccessRequests)

NextAccess ==
    \/ StartAccess
    \/ \E i \in 1 .. MaxReq : SetIdentity(i)
    \/ \E i \in 1 .. MaxReq : CreateStep(i)
    \/ \E i \in 1 .. MaxReq : ReadStep(i)
    \/ \E i \in 1 .. MaxReq : DecisionStep(i)
    \/ \E i \in 1 .. MaxReq : RoomTypeStep(i)

SpecAccess == Init /\ [][NextAccess]_vars

(* ============================ scoped reads ============================ *)

\* booking k is in the scope of the caller of request r: created by the
\* caller for a Corporate caller, against the caller's hotel for a Hotel
\* caller
InScope(r, k) ==
    /\ r.ident = Some("Corporate") => bookings[k].UserId = r.user
    /\ r.ident = Some("Hotel") =>
         getHotelDetailsId(r.user) = Some(bookings[k].HotelDetails_Id)

\* C14: every booking a list or get returns is in the caller's scope, and a
\* get of an existing booking outside the caller's scope is answered 404.
C14_ReadsAreScoped ==
    [][\A i \in DOMAIN reqs :
         (Moves(i) /\ reqs[i].kind \in {"list", "hotelList", "get"}) =>
           /\ reqs'[i].resp = 200 =>
                \A k \in Val(reqs'[i].out) : InScope(reqs[i], k)
           /\ ( /\ reqs[i].kind = "get"
                /\ reqs[i].id \in DOMAIN bookings
                /\ ~InScope(reqs[i], reqs[i].id) )
              => reqs'[i].resp = 404]_vars

(* ========================== profile gating ============================ *)

HotelScoped == {"approve", "reject", "hotelList", "rtUpdate", "rtDelete"}

\* C17: a Hotel-scoped operation is answered with a success only for an
\* account that has a HotelDetails row, and a booking create only for an
\* account that has a CorporateDetails row.
C17_ProfileGatesRoleScopedOperations ==
    [][\A i \in DOMAIN reqs :
         (Moves(i) /\ reqs'[i].resp \in {200, 201}) =>
           /\ reqs[i].kind \in HotelScoped =>
                getHotelDetailsId(reqs[i].user) # Null
           /\ reqs[i].kind = "create" =>
                getCorporateDetailsId(reqs[i].user) # Null]_vars

(* ---------- identity, profiles and tokens: SpecIdentity ---------------- *)

\* bodies of POST /profiles/hotel and /profiles/corporate: with and without
\* the required fields
ProfileBodies == { [complete |-> c] : c \in BOOLEAN }

\* set-identity, profile, login and Google sign-in requests of account 4
\* (email "n", no identityType, no profile) and of account 3 (email "c",
\* Corporate, with a profile)
IdentityRequests ==
         { NewReq("setIdentity", u, 0, [identityType |-> t]) :
             u \in {3, 4}, t \in IdentityTypes }
    \cup { NewReq("hotelProfile", u, 0, b) : u \in {3, 4}, b \in ProfileBodies }
    \cup { NewReq("corporateProfile", u, 0, b) :
             u \in {3, 4}, b \in ProfileBodies }
    \cup { NewAnon("login", [email |-> e, password |-> SeedPassword,
                             valid |-> TRUE]) : e \in {"c", "n"} }
    \cup { NewAnon("google", [email |-> "n", valid |-> TRUE]) }

StartIdentity == Arrive(IdentityRequests)

NextIdentity ==
    \/ StartIdentity
    \/ \E i \in 1 .. MaxReq : IdentityStep(i)
    \/ \E i \in 1 .. MaxReq : LoginSelect(i) \/ LoginCompare(i)
    \/ \E i \in 1 .. MaxReq : GoogleSelect(i)

SpecIdentity == Init /\ [][NextIdentity]_vars

\* no request is in its handler
Quiescent == \A i \in DOMAIN reqs : reqs[i].pc = "done"

\* C15: whenever no request is in flight, the identityType claim of the
\* token issued last to an account equals the identityType stored for it.
C15_TokenMatchesStoredIdentity ==
    Quiescent =>
      \A u \in DOMAIN users :
        tokens[u] # Null => Val(tokens[u]) = users[u].identityType

\* the other role
OtherIdentity(t) == IF t = Some("Hotel") THEN Some("Corporate") ELSE Some("Hotel")

\* C16: once an account's stored identityType is Hotel or Corporate, no step
\* stores the other identityType for it nor issues it a token carrying the
\* other identityType.
C16_IdentityChosenOnce ==
    [][\A u \in DOMAIN users :
         users[u].identityType # Null =>
           /\ users'[u].identityType # OtherIdentity(users[u].identityType)
           /\ tokens'[u] # tokens[u] =>
                tokens'[u] # Some(OtherIdentity(users[u].identityType))]_vars

\* C18: no account is the userId of more than one HotelDetails row nor of
\* more than one CorporateDetails row.
C18_OneProfilePerAccount ==
    \A u \in DOMAIN users :
      /\ Cardinality({h \in DOMAIN hotelDetails :
                        hotelDetails[h].userId = u}) <= 1
      /\ Cardinality({c \in DOMAIN corporateDetails :
                        corporateDetails[c].userId = u}) <= 1

(* ------------- registration and sign-in: SpecAuth --------------------- *)

\* "c" is the email of account 3; "x", "g" and "a" belong to no account at
\* start, and "a" is on the admin allow-list
Passwords == {SeedPassword, "pw2"}

AuthRequests ==
         { NewAnon("register", [email |-> e, password |-> pw, valid |-> TRUE]) :
             e \in {"c", "x"}, pw \in Passwords }
    \cup { NewAnon("register", [email |-> "a", password |-> SeedPassword,
                                valid |-> TRUE]) }
    \cup { NewAnon("register", [email |-> "c", password |-> "", valid |-> FALSE]) }
    \cup { NewAnon("login", [email |-> e, password |-> pw, valid |-> TRUE]) :
             e \in {"c", "x", "g"}, pw \in Passwords }
    \cup { NewAnon("login", [email |-> "c", password |-> "", valid |-> FALSE]) }
    \cup { NewAnon("google", [email |-> e, valid |-> TRUE]) :
             e \in {"c", "g", "a"} }
    \cup { NewAnon("google", [email |-> "g", valid |-> FALSE]) }

StartAuth == Arrive(AuthRequests)

NextAuth ==
    \/ StartAuth
    \/ \E i \in 1 .. MaxReq : AuthStep(i)

SpecAuth == Init /\ [][NextAuth]_vars

\* C19: a valid register whose email an account already carries when the
\* handler looks it up is answered 409 and changes no account; no step
\* changes the email or the password of an existing account or stores a
\* second account under an email, and a login with an account's email and
\* password passes the password check and is answered 200.
C19_DuplicateRegistrationConflicts ==
    [][/\ \A i \in DOMAIN reqs :
            ( /\ Moves(i) /\ reqs[i].kind = "register" /\ reqs[i].pc = "start"
              /\ reqs[i].body.valid
              /\ UserByEmail(reqs[i].body.email) # Null )
            => reqs'[i].resp = 409 /\ users' = users
       /\ \A u \in DOMAIN users :
            /\ u \in DOMAIN users'
            /\ users'[u].email = users[u].email
            /\ users'[u].password = users[u].password
       /\ \A u, v \in DOMAIN users' :
            u # v => users'[u].email # users'[v].email
       /\ \A i \in DOMAIN reqs :
            ( /\ Moves(i) /\ reqs[i].kind = "login" /\ reqs[i].pc = "compare"
              /\ users[Val(reqs[i].row).id].password
                   = Some(Hash(reqs[i].body.password)) )
            => reqs'[i].resp = 200]_vars

\* C19 witness: a register with the email of account 3 was answered 409 and
\* a login with that email and the account's password was answered 200
C19_Witness ==
    /\ Len(users) = 4
    /\ \E i, j \in DOMAIN reqs :
         /\ reqs[i].kind = "register" /\ reqs[i].resp = 409
         /\ reqs[i].body.email = "c" /\ reqs[i].body.password = "pw2"
         /\ reqs[j].kind = "login" /\ reqs[j].resp = 200
         /\ reqs[j].body.email = "c" /\ reqs[j].body.password = SeedPassword
         /\ users[3].password = Some(Hash(SeedPassword))

\* C20: a valid login that ends because the email belongs to no account, or
\* because the given password does not match the stored one, is answered
\* 401 with the body 'Invalid credentials' in both cases.
C20_LoginFailuresIndistinguishable ==
    [][\A i \in DOMAIN reqs :
         ( /\ Moves(i) /\ reqs[i].kind = "login" /\ reqs[i].body.valid
           /\ \/ reqs[i].pc = "start" /\ UserByEmail(reqs[i].body.email) = Null
              \/ /\ reqs[i].pc = "compare"
                 /\ Val(reqs[i].row).password
                      # Some(Hash(reqs[i].body.password)) )
         => /\ reqs'[i].resp = 401
            /\ reqs'[i].out = Some("Invalid credentials")]_vars

(* ---------------- concurrent first-time OAuth logins ------------------ *)

\* a Google callback that found no account for its email at the first SELECT
PastFirstSelect(i) ==
    /\ reqs[i].kind = "google"
    /\ reqs[i].pc \in {"insert", "fetch"}

\* C21: first-time OAuth logins for one new email leave exactly one account
\* with that email, and a callback whose first SELECT found no account,
\* its INSERT failing on the duplicate included, is answered 200 with a
\* token of the one account of that email.
C21_ConcurrentOAuthCreatesOneAccount ==
    [][/\ \A a, b \in DOMAIN users' :
              users'[a].email = users'[b].email => a = b
       /\ \A i \in DOMAIN reqs :
              PastFirstSelect(i) /\ reqs'[i] # reqs[i] =>
                  /\ UserByEmail(reqs[i].body.email)' # Null
                  /\ reqs'[i].pc = "done" =>
                         /\ reqs'[i].resp = 200
                         /\ reqs'[i].out # Null
                         /\ reqs'[i].user = Val(UserByEmail(reqs[i].body.email)')
                         /\ tokens'[reqs'[i].user] # Null]_vars

\* two callbacks for the new email "g" are both answered 200 for the same,
\* fifth account, one of them after its INSERT hit the duplicate entry
C21_Witness ==
    \E i, j \in DOMAIN reqs :
        /\ i # j
        /\ \A k \in {i, j} : /\ reqs[k].kind = "google"
                             /\ reqs[k].body.email = "g"
                             /\ reqs[k].pc = "done"
                             /\ reqs[k].resp = 200
                             /\ reqs[k].user = 5
        /\ reqs[i].row = Null
        /\ reqs[j].row = Some("ER_DUP_ENTRY")
        /\ Len(users) = 5

(* ---------------------- admin allow-list on OAuth --------------------- *)

\* C22: a Google callback for an allow-listed email that completes is
\* answered with a token of role admin, and the account's stored role is
\* admin.
C22_AllowListedOAuthIsAdmin ==
    [][\A i \in DOMAIN reqs :
           /\ reqs[i].kind = "google"
           /\ reqs[i].body.email \in AdminEmails
           /\ reqs[i].pc # "done"
           /\ reqs'[i].pc = "done"
           /\ reqs'[i].resp = 200
           => /\ Val(reqs'[i].out).role = "admin"
              /\ users'[reqs'[i].user].role = "admin"]_vars

(* ------------------ the role gates: SpecGate -------------------------- *)

\* every role-gated route, called by the hotel account 1, the corporate
\* account 3 and the account 4 of no identityType
GateRequests ==
         { NewReq("create", u, 0, b) : u \in {1, 3, 4}, b \in WorkflowBodies }
    \cup { NewReq("approve", u, 1, NoBody) : u \in {1, 3, 4} }
    \cup { NewReq("reject", u, 1, [reason |-> Some("full")]) : u \in {1, 3, 4} }
    \cup { NewReq("hotelList", u, 0, NoBody) : u \in {1, 3, 4} }
    \cup { NewReq("rtUpdate", u, 1, Deactivate) : u \in {1, 3, 4} }
    \cup { NewReq("rtDelete", u, 2, NoBody) : u \in {2, 3, 4} }
    \cup { NewReq("postUpdate", u, 1, b) : u \in {1, 3, 4}, b \in PostBodies }
    \cup { NewReq("postDelete", u, 2, NoBody) : u \in {2, 3, 4} }

StartGate == Arrive(GateRequests)

NextGate ==
    \/ StartGate
    \/ \E i \in 1 .. MaxReq : CreateStep(i)
    \/ \E i \in 1 .. MaxReq : ApproveGetHotel(i)
    \/ \E i \in 1 .. MaxReq : ApproveSelect(i)
    \/ \E i \in 1 .. MaxReq : ApproveUpdate(i)
    \/ \E i \in 1 .. MaxReq : RejectGetHotel(i)
    \/ \E i \in 1 .. MaxReq : RejectSelect(i)
    \/ \E i \in 1 .. MaxReq : RejectUpdate(i)
    \/ \E i \in 1 .. MaxReq : HotelListGetHotel(i)
    \/ \E i \in 1 .. MaxReq : HotelListSelect(i)
    \/ \E i \in 1 .. MaxReq : RoomTypeStep(i)
    \/ \E i \in 1 .. MaxReq : PostStep(i)

SpecGate == Init /\ [][NextGate]_vars

\* the identityType a route requires of its caller's token
RequiredIdentity(kind) ==
    IF kind = "create" THEN "Corporate" ELSE "Hotel"

\* a request on a gated route whose token does not carry the required
\* identityType
WrongIdentity(r) ==
    /\ r.kind \in {"create", "approve", "reject", "hotelList", "rtUpdate",
                   "rtDelete", "postUpdate", "postDelete"}
    /\ r.ident # Some(RequiredIdentity(r.kind))

PartialRoomTypeBodies ==
    { NoFields,
      [NoFields EXCEPT !.name = Some("suite")],
      [NoFields EXCEPT !.name = Some("")],
      [NoFields EXCEPT !.capacity = JsNum(3)],
      [NoFields EXCEPT !.description = Some("quiet"),
                       !.amenities = Some({"tv"})],
      [NoFields EXCEPT !.basePrice = JsNum(200)],
      [NoFields EXCEPT !.corporatePrice = JsStr(90)],
      [NoFields EXCEPT !.isActive = Some(FALSE)] }

\* hotel account 1 updates its room type 1; hotel account 2 its room type 2
\* and, without owning it, room type 1
RoomTypeRequests ==
         { NewReq("rtUpdate", 1, 1, b) : b \in PartialRoomTypeBodies }
    \cup { NewReq("rtUpdate", 2, id, [NoFields EXCEPT !.name = Some("suite")]) :
             id \in RoomTypeIds }

StartRoomType == Arrive(RoomTypeRequests)

NextRoomType ==
    \/ StartRoomType
    \/ \E i \in 1 .. MaxReq : RoomTypeUpdateGetHotel(i)
    \/ \E i \in 1 .. MaxReq : RoomTypeUpdateSelect(i)
    \/ \E i \in 1 .. MaxReq : RoomTypeUpdateWrite(i)

SpecRoomType == Init /\ [][NextRoomType]_vars

\* the column each field of the body is written to
RoomTypeColumn ==
    [ name |-> "Name", description |-> "Description",
      capacity |-> "Capacity", basePrice |-> "BasePrice",
      corporatePrice |-> "CorporatePrice", amenities |-> "Amenities",
      isActive |-> "IsActive" ]

\* C24: the UPDATE of PUT /room-types/:id leaves every column whose field
\* is absent from the body (name, description, capacity, basePrice,
\* corporatePrice, amenities, isActive) at its stored value, and leaves the
\* owning hotel and every other room type as they were.
C24_AbsentRoomTypeFieldsKept ==
    [][\A i \in DOMAIN reqs :
           At(i, "rtUpdate", "update") /\ reqs'[i].pc = "done" =>
               /\ reqs'[i].resp = 200
               /\ room_types'[reqs[i].id] # Null
               /\ \A f \in DOMAIN RoomTypeColumn :
                      reqs[i].body[f] = Null =>
                          Val(room_types'[reqs[i].id])[RoomTypeColumn[f]]
                              = Val(room_types[reqs[i].id])[RoomTypeColumn[f]]
               /\ Val(room_types'[reqs[i].id]).HotelDetails_Id
                      = Val(room_types[reqs[i].id]).HotelDetails_Id
               /\ \A id \in RoomTypeIds \ {reqs[i].id} :
                      room_types'[id] = room_types[id]]_vars

\* two updates of room type 1, one carrying only a name and one only a
\* base price, have both been answered 200: the row holds both new values
\* and the stored value of every other column
C24_Witness ==
    /\ \E i, j \in DOMAIN reqs :
          /\ reqs[i].body = [NoFields EXCEPT !.name = Some("suite")]
          /\ reqs[j].body = [NoFields EXCEPT !.basePrice = JsNum(200)]
          /\ \A k \in {i, j} : reqs[k].id = 1 /\ reqs[k].resp = 200
    /\ room_types[1] =
         Some([HotelDetails_Id |-> 1, Name |-> "suite",
               Description |-> Some("sea view"), Capacity |-> 2,
               BasePrice |-> 200, CorporatePrice |-> Some(120),
               Amenities |-> Some(<<"json", {"wifi"}>>), IsActive |-> TRUE])

(* ------------------ partial post updates: SpecPost -------------------- *)

\* bodies of PUT /posts/:id: a title with a price, and a title alone
PartialPostBodies ==
    { [title |-> "deal", price |-> JsNum(90)],
      [title |-> "sale", price |-> Null] }

\* each hotel account updates post 1, which hotel 1 owns
PostRequests ==
    { NewReq("postUpdate", u, 1, b) : u \in {1, 2}, b \in PartialPostBodies }

StartPost == Arrive(PostRequests)

NextPost ==
    \/ StartPost
    \/ \E i \in 1 .. MaxReq : PostUpdateGetHotel(i)
    \/ \E i \in 1 .. MaxReq : PostUpdateSelect(i)
    \/ \E i \in 1 .. MaxReq : PostUpdateWrite(i)

SpecPost == Init /\ [][NextPost]_vars

\* C25: the UPDATE of PUT /posts/:id leaves the price of the post at its
\* stored value when the body carries no price (and so for every field
\* absent from the body).
C25_AbsentPostFieldsKept ==
    [][\A i \in DOMAIN reqs :
           /\ At(i, "postUpdate", "update")
           /\ reqs'[i].pc = "done"
           /\ hotelPosts[reqs[i].id] # Null
           /\ reqs[i].body.price = Null
           => /\ hotelPosts'[reqs[i].id] # Null
              /\ Val(hotelPosts'[reqs[i].id]).Price
                     = Val(hotelPosts[reqs[i].id]).Price]_vars

(* --------------------------- the inbox: SpecChat ---------------------- *)

\* POST /chat from the corporate account 3 to hotel 1, 2 or the missing
\* hotel 3, about no post or post 1; from the hotel account 1 to the
\* corporate client 1; without a message; from the account of no
\* identityType; GET /chat/inbox from each of them; and GET /chat/post/1
\* from the two hotel accounts and the corporate account
ChatRequests ==
         { NewReq("chatSend", 3, 0, [recipientId |-> Some(h), postId |-> p,
                                     message |-> Some("hi")]) :
             h \in 1 .. 3, p \in {Null, Some(1)} }
    \cup { NewReq("chatSend", 1, 0, [recipientId |-> Some(1), postId |-> p,
                                     message |-> Some("yes")]) :
             p \in {Null, Some(1)} }
    \cup { NewReq("chatSend", u, 0, [recipientId |-> Some(1), postId |-> Null,
                                     message |-> m]) :
             u \in {3, 4}, m \in {Null, Some("hi")} }
    \cup { NewReq("inbox", u, 0, NoBody) : u \in {1, 3, 4} }
    \cup { NewReq("postChat", u, 1, NoBody) : u \in {1, 2, 3} }

StartChat == Arrive(ChatRequests)

NextChat ==
    \/ StartChat
    \/ \E i \in 1 .. MaxReq : ChatStep(i)

SpecChat == Init /\ [][NextChat]_vars

\* the partners the caller of an inbox request has exchanged a message with
Partners(r) == {InboxPartner(r, k) : k \in InboxMessages(r)}

\* the time of the latest message exchanged with partner p
LatestWith(r, p) ==
    MaxCreatedAt({k \in InboxMessages(r) : InboxPartner(r, k) = p})

\* C26: the inbox answers with exactly one row for each partner the caller
\* has exchanged a message with, the row carries the time of the latest
\* message exchanged with that partner, and the rows are in descending
\* order of that time, whether the messages are about a post or not.
C26_InboxOneRowPerPartner ==
    [][\A i \in DOMAIN reqs :
           At(i, "inbox", "query") /\ reqs'[i].pc = "done" =>
               /\ reqs'[i].resp = 200
               /\ LET rows == Val(reqs'[i].out)
                  IN  /\ \A p \in Partners(reqs[i]) :
                             Cardinality({a \in DOMAIN rows : rows[a].Id = p}) = 1
                      /\ \A a \in DOMAIN rows :
                             /\ rows[a].Id \in Partners(reqs[i])
                             /\ rows[a].LastMessageTime
                                    = LatestWith(reqs[i], rows[a].Id)
                      /\ \A a, b \in DOMAIN rows :
                             a < b => rows[a].LastMessageTime
                                          >= rows[b].LastMessageTime]_vars

(* ------------------ denials and storage access ------------------------ *)

\* C27: a request that is answered 401 or 403 is answered at its first
\* step, before the handler has issued any storage statement for it.
C27_DenialBeforeStorage ==
    [][\A i \in DOMAIN reqs :
           reqs[i].resp = 0 /\ reqs'[i].resp \in {401, 403} =>
               reqs[i].pc = "start"]_vars

(* ---------------------- storage failures: SpecFailure ------------------ *)

\* the corporate account creates a booking, the hotel accounts list theirs
FailureRequests ==
         { NewReq("create", 3, 0, b) : b \in WorkflowBodies }
    \cup { NewReq("hotelList", u, 0, NoBody) : u \in {1, 2, 3} }

StartFailure == Arrive(FailureRequests)

NextFailure ==
    \/ StartFailure
    \/ \E i \in 1 .. MaxReq : CreateStep(i)
    \/ \E i \in 1 .. MaxReq : CreateGetCorporateFails(i)
    \/ \E i \in 1 .. MaxReq : HotelListGetHotel(i)
    \/ \E i \in 1 .. MaxReq : HotelListGetHotelFails(i)
    \/ \E i \in 1 .. MaxReq : HotelListSelect(i)
    \/ \E i \in 1 .. MaxReq : HotelListSelectFails(i)

SpecFailure == Init /\ [][NextFailure]_vars

\* C28: a request one of whose storage statements failed, the lookups of
\* getHotelDetailsId and getCorporateDetailsId included, is answered 500.
C28_StorageFailureIsInternalError ==
    [][\A i \in DOMAIN reqs :
           /\ reqs'[i].failed
           /\ reqs[i].pc # "done"
           /\ reqs'[i].pc = "done"
           => reqs'[i].resp = 500]_vars

(* ------------------- decision fields and the status ------------------- *)

\* C29: in every reachable state a rejected booking has no approval
\* timestamp, a booking with a rejection reason is rejected, and a
\* confirmed booking has an approval timestamp and no rejection reason.
C29_DecisionFieldsAgreeWithStatus ==
    \A k \in DOMAIN bookings :
        /\ bookings[k].BookingStatus = "rejected" =>
               bookings[k].ApprovedAt = Null
        /\ bookings[k].RejectionReason # Null =>
               bookings[k].BookingStatus = "rejected"
        /\ bookings[k].BookingStatus = "confirmed" =>
               /\ bookings[k].ApprovedAt # Null
               /\ bookings[k].RejectionReason = Null

(* ------------------------ stored stays are valid ---------------------- *)

\* C30: every stored booking has its check-out after its check-in, at
\* least one night, at least one room and a total price above zero (a
\* create whose check-out is not after its check-in stores no booking).
C30_StoredBookingsAreValidStays ==
    \A k \in DOMAIN bookings :
        /\ bookings[k].CheckOut > bookings[k].CheckIn
        /\ nights(bookings[k].CheckIn, bookings[k].CheckOut) >= 1
        /\ bookings[k].RoomQuantity >= 1
        /\ bookings[k].TotalPrice > 0

====
